---- MODULE Spec2Model ----
(***************************************************************************)
(* Model of the stubsrv HTTP stub server: the route registry, the          *)
(* dispatcher, the path/query matchers, the middleware chain, the life of  *)
(* the server (Start, Close, URL) and the goroutines that serve requests;  *)
(* at the end, the pre-start-only variant of the stub.                     *)
(*                                                                         *)
(* Go strings that the code inspects character by character (methods,      *)
(* paths, registry keys) are sequences of one-character strings, so that   *)
(* strings.ToUpper, Trim, Split, Contains, HasPrefix and HasSuffix are     *)
(* computed as the library computes them.  Query names and values, which   *)
(* the code only compares for equality, are plain strings.                 *)
(***************************************************************************)
EXTENDS Integers, Sequences, FiniteSets, TLC

VARIABLES
    routers,        \* Stub.routers: key string -> routeInfo
    templateRoutes, \* Stub.templateRoutes: sequence of templateRoute
    nreg,           \* number of handler values created so far (handler identity)
    Server,         \* Stub.Server: "nil", or the state of the httptest.Server
    closed,         \* Stub.closed
    mux,            \* Stub.mux: "mux" or "nil"
    baseURL,        \* Stub.baseURL
    serverCloses,   \* history: number of calls of Server.Close()
    closeCalls,     \* history: number of calls of Close on a started stub
    last,           \* the last operation on the stub, its request and its outcome
    registered,     \* history: the arguments of the registration that made handler id
    call,           \* arguments of a call of a pure function
    ret,            \* result of that call
    mu,             \* Stub.mu: the goroutine that holds the lock, if any
    gor             \* the goroutines serving requests: where each is, what it has done

vars == <<routers, templateRoutes, nreg, Server, closed, mux, baseURL, serverCloses,
          closeCalls, last, registered, call, ret, mu, gor>>

stubVars == <<routers, templateRoutes, nreg, Server, closed, mux, baseURL, serverCloses,
              closeCalls, last, registered>>

(***************************************************************************)
(* Bounds of the model.                                                    *)
(***************************************************************************)
\* registrations per behaviour
MaxRoutes == 3
\* length of a raw path handed to pathMatch
MaxPathLen == 4
\* number of segments of a template handed to pathMatch
MaxSegs == 2
\* values per query parameter of a request
MaxVals == 2
\* calls of Close on a started stub per behaviour
MaxCloses == 3
\* requests per behaviour with goroutines, each served by a goroutine of its own
MaxInFlight == 2
\* middlewares handed to chainMiddleware
MaxMws == 3
\* requests per behaviour whose dispatch is followed read by read
MaxReaders == 1

(***************************************************************************)
(* package strings                                                         *)
(***************************************************************************)
\* unicode.ToUpper on the characters of the model's alphabet
UpperCh(c) ==
    CASE c = "a" -> "A"
      [] c = "b" -> "B"
      [] c = "g" -> "G"
      [] c = "p" -> "P"
      [] c = "x" -> "X"
      [] OTHER -> c

ToUpper(s) == [i \in 1..Len(s) |-> UpperCh(s[i])]

HasPrefix(s, p) ==
    /\ Len(s) >= Len(p)
    /\ SubSeq(s, 1, Len(p)) = p

HasSuffix(s, p) ==
    /\ Len(s) >= Len(p)
    /\ SubSeq(s, Len(s) - Len(p) + 1, Len(s)) = p

\* strings.Contains(s, sub)
Contains(s, sub) ==
    \E i \in 1..(Len(s) - Len(sub) + 1) : SubSeq(s, i, i + Len(sub) - 1) = sub

\* strings.Trim(s, cutset), cutset a set of characters
RECURSIVE TrimLeft(_, _)
TrimLeft(s, cutset) ==
    IF s # <<>> /\ Head(s) \in cutset THEN TrimLeft(Tail(s), cutset) ELSE s

RECURSIVE TrimRight(_, _)
TrimRight(s, cutset) ==
    IF s # <<>> /\ s[Len(s)] \in cutset
    THEN TrimRight(SubSeq(s, 1, Len(s) - 1), cutset)
    ELSE s

Trim(s, cutset) == TrimRight(TrimLeft(s, cutset), cutset)

\* strings.Split(s, sep) for a one-character separator: the pieces between
\* the separators; the empty string splits to one empty piece.
RECURSIVE SplitFrom(_, _, _)
SplitFrom(s, sep, cur) ==
    IF s = <<>> THEN <<cur>>
    ELSE IF Head(s) = sep THEN <<cur>> \o SplitFrom(Tail(s), sep, <<>>)
    ELSE SplitFrom(Tail(s), sep, Append(cur, Head(s)))

Split(s, sep) == SplitFrom(s, sep, <<>>)

(***************************************************************************)
(* matchers.go                                                             *)
(***************************************************************************)
\* the loop of pathMatch over tplSegs, from index i on
RECURSIVE SegsMatchFrom(_, _, _)
SegsMatchFrom(tplSegs, reqSegs, i) ==
    IF i > Len(tplSegs) THEN TRUE
    ELSE IF HasPrefix(tplSegs[i], <<":">>) THEN SegsMatchFrom(tplSegs, reqSegs, i + 1)
    ELSE IF tplSegs[i] # reqSegs[i] THEN FALSE
    ELSE SegsMatchFrom(tplSegs, reqSegs, i + 1)

pathMatchNoLen(tplSegs, rawPath) ==
    LET reqSegs == Split(Trim(rawPath, {"/"}), "/")
    IN  IF Len(reqSegs) < Len(tplSegs) THEN FALSE
        ELSE SegsMatchFrom(tplSegs, reqSegs, 1)

pathMatch(tplSegs, rawPath) ==
    LET reqSegs == Split(Trim(rawPath, {"/"}), "/")
    IN  IF Len(reqSegs) # Len(tplSegs) THEN FALSE
        ELSE SegsMatchFrom(tplSegs, reqSegs, 1)

\* url.Values.Get: the first value of the key, "" when there is none
Get(urlVals, k) ==
    IF k \in DOMAIN urlVals /\ Len(urlVals[k]) > 0 THEN urlVals[k][1] ELSE ""

queryMatchExact(tpl, urlVals) ==
    IF Cardinality(DOMAIN tpl) = 0 THEN TRUE
    ELSE /\ \A k \in DOMAIN tpl : Get(urlVals, k) = tpl[k]
         /\ DOMAIN urlVals \subseteq DOMAIN tpl

queryMatch(tpl, urlVals) ==
    IF Cardinality(DOMAIN tpl) = 0 THEN TRUE
    ELSE \A k \in DOMAIN tpl : Get(urlVals, k) = tpl[k]

(***************************************************************************)
(* middleware.go, and the handlers and middlewares of the tests            *)
(***************************************************************************)
\* Middlewares of the tests: m1 and m2 record, call next and record again
\* (middleware_test.go, "multiple middleware in correct order"); mB writes
\* 401 and does not call next ("middleware can short-circuit").
Middlewares == {"m1", "m2", "mB"}

CallsNext(m) == m \in {"m1", "m2"}

StatusUnauthorized == 401

StatusOK == 200

StatusCreated == 201

StatusBadRequest == 400

StatusNotFound == 404

StatusMethodNotAllowed == 405

\* One step of a request's execution: which code ran and the status it wrote
\* (0: none).
Event(ev, m, id, status) == [ev |-> ev, mw |-> m, h |-> id, status |-> status]

\* An http.Handler value: a terminal handler hv = [id, status], or the
\* closure a middleware returns around the handler next.
Terminal(hv) == [mw |-> "", h |-> <<hv>>, next |-> <<>>]

\* mws[i](h): the middleware applied to a handler
Wrap(m, h) == [mw |-> m, h |-> <<>>, next |-> <<h>>]

\* The loop of chainMiddleware: i runs from len(mws)-1 down to 0 in the code,
\* from Len(mws) down to 1 here.
RECURSIVE ChainLoop(_, _, _)
ChainLoop(h, mws, i) ==
    IF i < 1 THEN h ELSE ChainLoop(Wrap(mws[i], h), mws, i - 1)

RECURSIVE ChainLoopUp(_, _, _)
ChainLoopUp(h, mws, i) ==
    IF i > Len(mws) THEN h ELSE ChainLoopUp(Wrap(mws[i], h), mws, i + 1)

chainMiddlewareInnerFirst(h, mws) == ChainLoopUp(h, mws, 1)

RECURSIVE ChainLoopTo(_, _, _, _)
ChainLoopTo(h, mws, i, stop) ==
    IF i < stop THEN h ELSE ChainLoopTo(Wrap(mws[i], h), mws, i - 1, stop)

chainMiddlewareSkipFirst(h, mws) == ChainLoopTo(h, mws, Len(mws), 2)

chainMiddleware(h, mws) == ChainLoop(h, mws, Len(mws))

\* handler.ServeHTTP(w, r): the events of running a composed handler
RECURSIVE ServeHTTP(_)
ServeHTTP(handler) ==
    IF handler.mw = ""
    THEN <<Event("handler", "", handler.h[1].id, handler.h[1].status)>>
    ELSE IF CallsNext(handler.mw)
    THEN <<Event("before", handler.mw, 0, 0)>>
         \o ServeHTTP(handler.next[1])
         \o <<Event("after", handler.mw, 0, 0)>>
    ELSE <<Event("short", handler.mw, 0, StatusUnauthorized)>>

\* The status of the response: the first WriteHeader wins, 200 when no code
\* wrote one.
RECURSIVE FirstStatus(_)
FirstStatus(trace) ==
    IF trace = <<>> THEN StatusOK
    ELSE IF Head(trace).status # 0 THEN Head(trace).status
    ELSE FirstStatus(Tail(trace))

(***************************************************************************)
(* stubsrv.go, the dispatcher variant (lines 161-446): registry            *)
(***************************************************************************)
\* The methods GET and POST are written G and P.
MethodGet == <<"G">>

MethodPost == <<"P">>

\* A terminal handler value: AddHandler's handlerFunc or the control plane's
\* responseHandler.  id tells the handler values apart; status is what the
\* handler writes.
HandlerValue(id, status) == [id |-> id, status |-> status]

routeInfo(hv, mws) == [handler |-> hv, middlewares |-> mws]

templateRoute(method, segments, queries, info) ==
    [method |-> method, segments |-> segments, queries |-> queries, info |-> info]

\* A map that keeps the entry a key already has (not the code's m[key] = v)
MapPutIfAbsent(m, key, v) ==
    [k \in (DOMAIN m) \cup {key} |-> IF k \in DOMAIN m THEN m[k] ELSE v]

\* A map that holds the new entry alone (not the code's m[key] = v)
MapPutAlone(m, key, v) == [k \in {key} |-> v]

\* m[key] = v on a Go map
MapPut(m, key, v) == [k \in (DOMAIN m) \cup {key} |-> IF k = key THEN v ELSE m[k]]

\* The registry key "METHOD /path" of a method and a path
RouteKeyRaw(method, path) == method \o <<" ">> \o path

RouteKey(method, path) == ToUpper(method) \o <<" ">> \o path

\* strings.Split(strings.Trim(path, "/"), "/")
Segments(path) == Split(Trim(path, {"/"}), "/")

NoReq == [method |-> <<>>, path |-> <<>>, query |-> <<>>]

\* What an operation gave back: for a request the status, the handler that
\* ran and what ran in order; body is the text of a response body, of a
\* returned string or of a returned error.
NoResp == [kind |-> "none", status |-> 0, h |-> 0, trace |-> <<>>, body |-> ""]

\* History record of a registration call: the method and path as the caller
\* gave them, the query constraints, the middleware list, and the state of
\* the server when the call was made.
Registration(by, method, path, query, mws) ==
    [by |-> by, method |-> method, path |-> path, query |-> query, mws |-> mws,
     server |-> Server]

Last(op, req, resp, panicked) ==
    [op |-> op, req |-> req, resp |-> resp, panicked |-> panicked]

\* Stub.mu: not held (the zero value of sync.Mutex), or held by a goroutine
Unlocked == <<>>

HeldBy(g) == <<g>>

\* The goroutine of the caller of Start, Close, AddHandler and URL; the
\* goroutines that serve requests are 1..MaxInFlight.
Caller == 0

Goroutines == 1..MaxInFlight

\* A goroutine that serves no request yet: pc is where it stands, req the
\* request, resp the outcome of dispatch, seen the number of registrations
\* that had returned when the request arrived, ran the user-supplied code it
\* has run (and whether it held the lock then), reentry what its handler
\* calls on the stub.
Idle == [pc |-> "idle", req |-> NoReq, resp |-> NoResp, seen |-> 0, ran |-> <<>>,
         reentry |-> "none"]

\* NewStub: an empty registry, a mux holding the control-plane endpoint, the
\* readiness probe and the dispatcher; no server yet.
NewStub ==
    /\ routers = <<>>
    /\ templateRoutes = <<>>
    /\ nreg = 0
    /\ Server = "nil"
    /\ closed = FALSE
    /\ mux = "mux"
    /\ baseURL = ""
    /\ serverCloses = 0
    /\ closeCalls = 0
    /\ mu = Unlocked
    /\ last = Last("NewStub", NoReq, NoResp, FALSE)
    /\ registered = <<>>

\* An AddHandler that stores the method as the caller wrote it (not the
\* code's)
AddHandlerRawMethod(method, path, mws) ==
    /\ nreg < MaxRoutes
    /\ IF closed
       THEN /\ last' = Last("AddHandler", NoReq, NoResp, TRUE)
            /\ UNCHANGED <<routers, templateRoutes, nreg, registered>>
       ELSE LET info == routeInfo(HandlerValue(nreg + 1, StatusOK), mws)
            IN  /\ IF Contains(path, <<":">>)
                   THEN /\ templateRoutes' = Append(templateRoutes,
                                templateRoute(method, Segments(path), <<>>, info))
                        /\ UNCHANGED routers
                   ELSE /\ routers' = MapPut(routers, RouteKeyRaw(method, path), info)
                        /\ UNCHANGED templateRoutes
                /\ nreg' = nreg + 1
                /\ last' = Last("AddHandler", NoReq, NoResp, FALSE)
                /\ registered' = Append(registered,
                        Registration("AddHandler", method, path, <<>>, mws))
    /\ UNCHANGED <<Server, closed, mux, baseURL, serverCloses, closeCalls>>

\* Stub.AddHandler(method, path, handlerFunc, middlewares...)
AddHandler(method, path, mws) ==
    /\ nreg < MaxRoutes
    /\ IF closed
       THEN /\ last' = Last("AddHandler", NoReq, NoResp, TRUE)
            /\ UNCHANGED <<routers, templateRoutes, nreg, registered>>
       ELSE LET upperMethod == ToUpper(method)
                info == routeInfo(HandlerValue(nreg + 1, StatusOK), mws)
            IN  /\ IF Contains(path, <<":">>)
                   THEN /\ templateRoutes' = Append(templateRoutes,
                                templateRoute(upperMethod, Segments(path), <<>>, info))
                        /\ UNCHANGED routers
                   ELSE /\ routers' = MapPut(routers, RouteKey(method, path), info)
                        /\ UNCHANGED templateRoutes
                /\ nreg' = nreg + 1
                /\ last' = Last("AddHandler", NoReq, NoResp, FALSE)
                /\ registered' = Append(registered,
                        Registration("AddHandler", method, path, <<>>, mws))
    /\ UNCHANGED <<Server, closed, mux, baseURL, serverCloses, closeCalls>>

DynamicHandlerSpec(method, path, query, status) ==
    [Method |-> method, Path |-> path, Query |-> query, Status |-> status]

ControlRequest(httpMethod, bodyOk, spec) ==
    [httpMethod |-> httpMethod, bodyOk |-> bodyOk, spec |-> spec]

\* A controlAddHandler that looks at the path alone to tell a templated
\* route (not the code's)
controlAddHandlerPathOnly(r) ==
    /\ nreg < MaxRoutes
    /\ IF r.httpMethod # MethodPost
       THEN /\ last' = Last("control", NoReq,
                            [NoResp EXCEPT !.kind = "error", !.status = StatusMethodNotAllowed], FALSE)
            /\ UNCHANGED <<routers, templateRoutes, nreg, registered>>
       ELSE IF ~r.bodyOk \/ r.spec.Method = <<>> \/ r.spec.Path = <<>>
       THEN /\ last' = Last("control", NoReq,
                            [NoResp EXCEPT !.kind = "error", !.status = StatusBadRequest], FALSE)
            /\ UNCHANGED <<routers, templateRoutes, nreg, registered>>
       ELSE LET status == IF r.spec.Status = 0 THEN StatusOK ELSE r.spec.Status
                info == routeInfo(HandlerValue(nreg + 1, status), <<>>)
            IN  /\ IF Contains(r.spec.Path, <<":">>)
                   THEN /\ templateRoutes' = Append(templateRoutes,
                                templateRoute(ToUpper(r.spec.Method), Segments(r.spec.Path),
                                              r.spec.Query, info))
                        /\ UNCHANGED routers
                   ELSE /\ routers' = MapPut(routers, RouteKey(r.spec.Method, r.spec.Path), info)
                        /\ UNCHANGED templateRoutes
                /\ nreg' = nreg + 1
                /\ last' = Last("control", NoReq,
                                [NoResp EXCEPT !.kind = "created", !.status = StatusCreated], FALSE)
                /\ registered' = Append(registered,
                        Registration("control", r.spec.Method, r.spec.Path, r.spec.Query, <<>>))
    /\ UNCHANGED <<Server, closed, mux, baseURL, serverCloses, closeCalls>>

\* A controlAddHandler that does not look whether the decoded spec has a
\* method and a path (not the code's)
controlAddHandlerUnchecked(r) ==
    /\ nreg < MaxRoutes
    /\ IF r.httpMethod # MethodPost
       THEN /\ last' = Last("control", NoReq,
                            [NoResp EXCEPT !.kind = "error", !.status = StatusMethodNotAllowed], FALSE)
            /\ UNCHANGED <<routers, templateRoutes, nreg, registered>>
       ELSE IF ~r.bodyOk
       THEN /\ last' = Last("control", NoReq,
                            [NoResp EXCEPT !.kind = "error", !.status = StatusBadRequest], FALSE)
            /\ UNCHANGED <<routers, templateRoutes, nreg, registered>>
       ELSE LET status == IF r.spec.Status = 0 THEN StatusOK ELSE r.spec.Status
                info == routeInfo(HandlerValue(nreg + 1, status), <<>>)
            IN  /\ IF Contains(r.spec.Path, <<":">>) \/ Cardinality(DOMAIN r.spec.Query) > 0
                   THEN /\ templateRoutes' = Append(templateRoutes,
                                templateRoute(ToUpper(r.spec.Method), Segments(r.spec.Path),
                                              r.spec.Query, info))
                        /\ UNCHANGED routers
                   ELSE /\ routers' = MapPut(routers, RouteKey(r.spec.Method, r.spec.Path), info)
                        /\ UNCHANGED templateRoutes
                /\ nreg' = nreg + 1
                /\ last' = Last("control", NoReq,
                                [NoResp EXCEPT !.kind = "created", !.status = StatusCreated], FALSE)
                /\ registered' = Append(registered,
                        Registration("control", r.spec.Method, r.spec.Path, r.spec.Query, <<>>))
    /\ UNCHANGED <<Server, closed, mux, baseURL, serverCloses, closeCalls>>

\* Stub.controlAddHandler(w, r): r carries the request method, whether its
\* body decodes, and the decoded DynamicHandlerSpec.
controlAddHandler(r) ==
    /\ nreg < MaxRoutes
    /\ IF r.httpMethod # MethodPost
       THEN /\ last' = Last("control", NoReq,
                            [NoResp EXCEPT !.kind = "error", !.status = StatusMethodNotAllowed], FALSE)
            /\ UNCHANGED <<routers, templateRoutes, nreg, registered>>
       ELSE IF ~r.bodyOk \/ r.spec.Method = <<>> \/ r.spec.Path = <<>>
       THEN /\ last' = Last("control", NoReq,
                            [NoResp EXCEPT !.kind = "error", !.status = StatusBadRequest], FALSE)
            /\ UNCHANGED <<routers, templateRoutes, nreg, registered>>
       ELSE LET status == IF r.spec.Status = 0 THEN StatusOK ELSE r.spec.Status
                info == routeInfo(HandlerValue(nreg + 1, status), <<>>)
            IN  /\ IF Contains(r.spec.Path, <<":">>) \/ Cardinality(DOMAIN r.spec.Query) > 0
                   THEN /\ templateRoutes' = Append(templateRoutes,
                                templateRoute(ToUpper(r.spec.Method), Segments(r.spec.Path),
                                              r.spec.Query, info))
                        /\ UNCHANGED routers
                   ELSE /\ routers' = MapPut(routers, RouteKey(r.spec.Method, r.spec.Path), info)
                        /\ UNCHANGED templateRoutes
                /\ nreg' = nreg + 1
                /\ last' = Last("control", NoReq,
                                [NoResp EXCEPT !.kind = "created", !.status = StatusCreated], FALSE)
                /\ registered' = Append(registered,
                        Registration("control", r.spec.Method, r.spec.Path, r.spec.Query, <<>>))
    /\ UNCHANGED <<Server, closed, mux, baseURL, serverCloses, closeCalls>>

(***************************************************************************)
(* stubsrv.go, the dispatcher variant: dispatch                            *)
(***************************************************************************)
\* A request as dispatch reads it: r.Method, r.URL.Path, r.URL.Query()
Request(method, path, query) == [method |-> method, path |-> path, query |-> query]

\* The composed handler of a route entry is built and run; the response
\* carries the events of the run.
Serve(info) ==
    LET final == chainMiddleware(Terminal(info.handler), info.middlewares)
        trace == ServeHTTP(final)
    IN  [kind |-> "handler", status |-> FirstStatus(trace), h |-> info.handler.id,
         trace |-> trace, body |-> ""]

\* The condition of the first loop over s.templateRoutes (lines 400-409)
TemplateHit(tr, r) ==
    /\ tr.method = r.method
    /\ pathMatch(tr.segments, r.path)
    /\ queryMatch(tr.queries, r.query)

\* The first loop over s.templateRoutes: the index of the first route that
\* hits, from index i on; 0 when none does.
RECURSIVE TemplateScanFrom(_, _, _)
TemplateScanFrom(rts, r, i) ==
    IF i > Len(rts) THEN 0
    ELSE IF TemplateHit(rts[i], r) THEN i
    ELSE TemplateScanFrom(rts, r, i + 1)

TemplateScan(rts, r) == TemplateScanFrom(rts, r, 1)

\* The classification of a request that resolved to no route (lines 417-438)
MethodMismatch(rs, rts, r) ==
    \/ \E k \in DOMAIN rs : HasSuffix(k, <<" ">> \o r.path)
    \/ \E i \in 1..Len(rts) :
          /\ pathMatch(rts[i].segments, r.path)
          /\ queryMatch(rts[i].queries, r.query)

\* A dispatch that goes on after it has served a route: to the template scan
\* after the exact route, to the classification after either (not the
\* code's)
ResolveNoReturn(rs, rts, r) ==
    LET key == RouteKey(r.method, r.path)
        i == TemplateScan(rts, r)
        exact == IF key \in DOMAIN rs THEN Serve(rs[key]).trace ELSE <<>>
        scanned == IF i # 0 THEN Serve(rts[i].info).trace ELSE <<>>
        failure == IF MethodMismatch(rs, rts, r) THEN StatusMethodNotAllowed ELSE StatusNotFound
    IN  IF exact \o scanned = <<>>
        THEN [NoResp EXCEPT !.kind = "error", !.status = failure]
        ELSE [kind |-> "handler", status |-> FirstStatus(exact \o scanned),
              h |-> IF key \in DOMAIN rs THEN rs[key].handler.id ELSE rts[i].info.handler.id,
              trace |-> exact \o scanned \o <<Event("error", "", 0, failure)>>, body |-> ""]

\* The response of dispatch to request r on the registry (rs, rts)
ResolveTemplateFirst(rs, rts, r) ==
    LET key == RouteKey(r.method, r.path)
        i == TemplateScan(rts, r)
    IN  IF i # 0 THEN Serve(rts[i].info)
        ELSE IF key \in DOMAIN rs THEN Serve(rs[key])
        ELSE IF MethodMismatch(rs, rts, r)
        THEN [NoResp EXCEPT !.kind = "error", !.status = StatusMethodNotAllowed]
        ELSE [NoResp EXCEPT !.kind = "error", !.status = StatusNotFound]

ResolveRawKey(rs, rts, r) ==
    LET key == RouteKeyRaw(r.method, r.path)
        i == TemplateScan(rts, r)
    IN  IF key \in DOMAIN rs THEN Serve(rs[key])
        ELSE IF i # 0 THEN Serve(rts[i].info)
        ELSE IF MethodMismatch(rs, rts, r)
        THEN [NoResp EXCEPT !.kind = "error", !.status = StatusMethodNotAllowed]
        ELSE [NoResp EXCEPT !.kind = "error", !.status = StatusNotFound]

Resolve(rs, rts, r) ==
    LET key == RouteKey(r.method, r.path)
        i == TemplateScan(rts, r)
    IN  IF key \in DOMAIN rs THEN Serve(rs[key])
        ELSE IF i # 0 THEN Serve(rts[i].info)
        ELSE IF MethodMismatch(rs, rts, r)
        THEN [NoResp EXCEPT !.kind = "error", !.status = StatusMethodNotAllowed]
        ELSE [NoResp EXCEPT !.kind = "error", !.status = StatusNotFound]

\* A dispatch that takes the exact route it serves out of the map (not the
\* code's)
dispatchConsuming(r) ==
    /\ last' = Last("dispatch", r, Resolve(routers, templateRoutes, r), FALSE)
    /\ routers' = [k \in DOMAIN routers \ {RouteKey(r.method, r.path)} |-> routers[k]]
    /\ UNCHANGED <<templateRoutes, nreg, Server, closed, mux, baseURL,
                   serverCloses, closeCalls, registered>>

\* Stub.dispatch(w, r)
dispatch(r) ==
    /\ last' = Last("dispatch", r, Resolve(routers, templateRoutes, r), FALSE)
    /\ UNCHANGED <<routers, templateRoutes, nreg, Server, closed, mux, baseURL,
                   serverCloses, closeCalls, registered>>

(***************************************************************************)
(* stubsrv.go, the dispatcher variant: Start, Close, URL and the mux       *)
(***************************************************************************)
\* errors.New("stub server is already started")
ErrAlreadyStarted == "stub server is already started"

\* The error of net.Listen on an occupied port, and the error Start makes of
\* it with fmt.Errorf("could not listen on %s: %w", listenAddr, err)
ErrAddrInUse == "address already in use"

ErrListen == "could not listen: address already in use"

\* errors.Unwrap: the error that %w wrapped, "" for an error that wraps none
Unwrap(e) == IF e = ErrListen THEN ErrAddrInUse ELSE ""

\* httptest.Server.URL after Server.Start()
ServerURL == "http://127.0.0.1"

\* A Start that does not look whether the stub is started (not the code's)
StartUnguarded(bindOk) ==
    /\ IF ~bindOk
       THEN /\ mux' = "nil"
            /\ last' = Last("Start", NoReq,
                            [NoResp EXCEPT !.kind = "error", !.body = ErrListen], FALSE)
            /\ UNCHANGED <<Server, baseURL>>
       ELSE /\ Server' = "listening"
            /\ baseURL' = ServerURL
            /\ last' = Last("Start", NoReq, [NoResp EXCEPT !.kind = "ok"], FALSE)
            /\ UNCHANGED mux
    /\ UNCHANGED <<routers, templateRoutes, nreg, closed, serverCloses, closeCalls,
                   registered>>

\* A Start that starts a closed stub again (not the code's)
StartAfterClose(bindOk) ==
    /\ IF Server # "nil" /\ ~closed
       THEN /\ last' = Last("Start", NoReq,
                            [NoResp EXCEPT !.kind = "error", !.body = ErrAlreadyStarted], FALSE)
            /\ UNCHANGED <<Server, mux, baseURL, closed>>
       ELSE IF ~bindOk
       THEN /\ mux' = "nil"
            /\ last' = Last("Start", NoReq,
                            [NoResp EXCEPT !.kind = "error", !.body = ErrListen], FALSE)
            /\ UNCHANGED <<Server, baseURL, closed>>
       ELSE /\ Server' = "listening"
            /\ baseURL' = ServerURL
            /\ closed' = FALSE
            /\ last' = Last("Start", NoReq, [NoResp EXCEPT !.kind = "ok"], FALSE)
            /\ UNCHANGED mux
    /\ UNCHANGED <<routers, templateRoutes, nreg, serverCloses, closeCalls, registered>>

\* Stub.Start(); bindOk tells whether net.Listen gets the port.
Start(bindOk) ==
    /\ IF Server # "nil"
       THEN /\ last' = Last("Start", NoReq,
                            [NoResp EXCEPT !.kind = "error", !.body = ErrAlreadyStarted], FALSE)
            /\ UNCHANGED <<Server, mux, baseURL>>
       ELSE IF ~bindOk
       THEN /\ mux' = "nil"
            /\ last' = Last("Start", NoReq,
                            [NoResp EXCEPT !.kind = "error", !.body = ErrListen], FALSE)
            /\ UNCHANGED <<Server, baseURL>>
       ELSE /\ Server' = "listening"
            /\ baseURL' = ServerURL
            /\ last' = Last("Start", NoReq, [NoResp EXCEPT !.kind = "ok"], FALSE)
            /\ UNCHANGED mux
    /\ UNCHANGED <<routers, templateRoutes, nreg, closed, serverCloses, closeCalls,
                   registered>>

\* A Close that shuts the server down whether or not the stub is closed
\* (not the code's)
CloseUnguarded ==
    /\ closeCalls < MaxCloses
    /\ IF Server # "nil"
       THEN /\ Server' = "shutdown"
            /\ closed' = TRUE
            /\ serverCloses' = serverCloses + 1
       ELSE UNCHANGED <<Server, closed, serverCloses>>
    /\ closeCalls' = IF Server # "nil" THEN closeCalls + 1 ELSE closeCalls
    /\ last' = Last("Close", NoReq, NoResp, FALSE)
    /\ UNCHANGED <<routers, templateRoutes, nreg, mux, baseURL, registered>>

\* Stub.Close() with no request in flight: Server.Close() returns at once.
Close ==
    /\ closeCalls < MaxCloses
    /\ IF Server # "nil" /\ ~closed
       THEN /\ Server' = "shutdown"
            /\ closed' = TRUE
            /\ serverCloses' = serverCloses + 1
       ELSE UNCHANGED <<Server, closed, serverCloses>>
    /\ closeCalls' = IF Server # "nil" THEN closeCalls + 1 ELSE closeCalls
    /\ last' = Last("Close", NoReq, NoResp, FALSE)
    /\ UNCHANGED <<routers, templateRoutes, nreg, mux, baseURL, registered>>

\* A URL that does not look at s.closed (not the code's)
URLValueIgnoringClosed == IF Server = "nil" THEN "" ELSE baseURL

\* What Stub.URL() returns
URLValue == IF Server = "nil" \/ closed THEN "" ELSE baseURL

\* Stub.URL()
URL ==
    /\ last' = Last("URL", NoReq, [NoResp EXCEPT !.kind = "string", !.body = URLValue], FALSE)
    /\ UNCHANGED <<routers, templateRoutes, nreg, Server, closed, mux, baseURL,
                   serverCloses, closeCalls, registered>>

\* The patterns NewStub registers on the mux next to "/"
ReadyzPath == <<"/", "r", "e", "a", "d", "y", "z">>

ControlPath == <<"/", "_", "c", "o", "n", "t", "r", "o", "l",
                 "/", "h", "a", "n", "d", "l", "e", "r", "s">>

\* A request as the listener hands it to the server's handler: what dispatch
\* reads of it, and the body as the control plane decodes it.
HTTPRequest(method, path, query, bodyOk, spec) ==
    [method |-> method, path |-> path, query |-> query, bodyOk |-> bodyOk, spec |-> spec]

\* The readiness probe registered by NewStub
readyz(r) ==
    /\ last' = Last("readyz", Request(r.method, r.path, r.query),
                    IF r.method # MethodGet
                    THEN [NoResp EXCEPT !.kind = "error", !.status = StatusMethodNotAllowed]
                    ELSE [NoResp EXCEPT !.kind = "readyz", !.status = StatusOK, !.body = "ok"],
                    FALSE)
    /\ UNCHANGED <<routers, templateRoutes, nreg, Server, closed, mux, baseURL,
                   serverCloses, closeCalls, registered>>

\* A request that arrives at the listener of the running server: the
\* server's handler is s.mux as Start found it (s.mux is assigned nowhere
\* after a successful Start).  A nil *http.ServeMux panics in ServeHTTP; the
\* server recovers, closes the connection and the client gets no response.
muxServeHTTP(r) ==
    /\ Server = "listening"
    /\ IF mux = "nil"
       THEN /\ last' = Last("aborted", Request(r.method, r.path, r.query), NoResp, TRUE)
            /\ UNCHANGED <<routers, templateRoutes, nreg, Server, closed, mux, baseURL,
                           serverCloses, closeCalls, registered>>
       ELSE IF r.path = ControlPath
       THEN controlAddHandler(ControlRequest(r.method, r.bodyOk, r.spec))
       ELSE IF r.path = ReadyzPath
       THEN readyz(r)
       ELSE dispatch(Request(r.method, r.path, r.query))

(***************************************************************************)
(* stubsrv.go, the dispatcher variant, goroutine by goroutine: the server  *)
(* serves each request on a goroutine of its own; s.mu.Lock() waits until  *)
(* the lock is free; what a function does between Lock and Unlock, when it *)
(* never waits there, is one step.                                         *)
(***************************************************************************)
\* User-supplied code that goroutine g runs now, told by the events evs
Ran(g, evs) == [i \in 1..Len(evs) |-> [ev |-> evs[i].ev, mw |-> evs[i].mw,
                                       held |-> mu = HeldBy(g)]]

\* The calls mws[i](h) of chainMiddleware, last middleware first
WrapCalls(mws) == [i \in 1..Len(mws) |-> Event("wrap", mws[Len(mws) + 1 - i], 0, 0)]

\* The route entry dispatch finds for request r: the exact one, else the
\* first templated one, else none
Found(rs, rts, r) ==
    LET key == RouteKey(r.method, r.path)
        i == TemplateScan(rts, r)
    IN  IF key \in DOMAIN rs THEN <<rs[key]>>
        ELSE IF i # 0 THEN <<rts[i].info>>
        ELSE <<>>

\* The listener accepts request r and the server starts goroutine g on it:
\* the mux hands it to the control plane or to dispatch; a nil mux panics
\* and the request is left without an answer.
Accept(g, r) ==
    /\ Server = "listening"
    /\ gor[g].pc = "idle"
    /\ gor' = [gor EXCEPT ![g] = [Idle EXCEPT
                  !.pc = IF mux = "nil" THEN "done"
                         ELSE IF r.path = ControlPath THEN "control"
                         ELSE "dispatch",
                  !.req = r,
                  !.resp = IF mux = "nil" THEN [NoResp EXCEPT !.kind = "aborted"] ELSE NoResp,
                  !.seen = nreg]]
    /\ UNCHANGED <<stubVars, mu>>

\* A dispatch that goes on without the lock (not the code's)
dispatchNoLock(g) ==
    /\ gor[g].pc = "dispatch"
    /\ gor' = [gor EXCEPT ![g].pc = "locked"]
    /\ UNCHANGED <<stubVars, mu>>

\* dispatch, s.mu.Lock() (line 391)
dispatchLock(g) ==
    /\ gor[g].pc = "dispatch"
    /\ mu = Unlocked
    /\ mu' = HeldBy(g)
    /\ gor' = [gor EXCEPT ![g].pc = "locked"]
    /\ UNCHANGED stubVars

\* dispatch from the lookup to s.mu.Unlock() (lines 392-395, 400-412,
\* 417-439): the lookup, the scan, chainMiddleware on the route found, the
\* classification when none is found.
dispatchLookup(g) ==
    /\ gor[g].pc = "locked"
    /\ LET r == Request(gor[g].req.method, gor[g].req.path, gor[g].req.query)
           found == Found(routers, templateRoutes, r)
       IN  gor' = [gor EXCEPT
                      ![g].pc = "unlocked",
                      ![g].resp = Resolve(routers, templateRoutes, r),
                      ![g].ran = IF found = <<>> THEN <<>>
                                 ELSE Ran(g, WrapCalls(found[1].middlewares))]
    /\ mu' = Unlocked
    /\ UNCHANGED stubVars

\* The same lines read by read.  The exact lookup (lines 392-397): a hit
\* composes the handler and releases the lock, a miss goes on to the scan.
dispatchExact(g) ==
    /\ gor[g].pc = "locked"
    /\ LET r == Request(gor[g].req.method, gor[g].req.path, gor[g].req.query)
           key == RouteKey(r.method, r.path)
       IN  IF key \in DOMAIN routers
           THEN /\ gor' = [gor EXCEPT
                             ![g].pc = "unlocked",
                             ![g].resp = Serve(routers[key]),
                             ![g].ran = Ran(g, WrapCalls(routers[key].middlewares))]
                /\ mu' = Unlocked
           ELSE /\ gor' = [gor EXCEPT ![g].pc = "scan"]
                /\ UNCHANGED mu
    /\ UNCHANGED stubVars

\* The loop over s.templateRoutes (lines 400-415): the first route that hits
\* is composed and the lock released, none goes on to the classification.
dispatchScan(g) ==
    /\ gor[g].pc = "scan"
    /\ LET r == Request(gor[g].req.method, gor[g].req.path, gor[g].req.query)
           i == TemplateScan(templateRoutes, r)
       IN  IF i # 0
           THEN /\ gor' = [gor EXCEPT
                             ![g].pc = "unlocked",
                             ![g].resp = Serve(templateRoutes[i].info),
                             ![g].ran = Ran(g, WrapCalls(templateRoutes[i].info.middlewares))]
                /\ mu' = Unlocked
           ELSE /\ gor' = [gor EXCEPT ![g].pc = "classify"]
                /\ UNCHANGED mu
    /\ UNCHANGED stubVars

\* The classification (lines 417-439): the loops over the keys and over the
\* templated routes, then s.mu.Unlock(); the answer is 405 or 404.
dispatchClassify(g) ==
    /\ gor[g].pc = "classify"
    /\ LET r == Request(gor[g].req.method, gor[g].req.path, gor[g].req.query)
       IN  gor' = [gor EXCEPT
                      ![g].pc = "unlocked",
                      ![g].resp = [NoResp EXCEPT
                                      !.kind = "error",
                                      !.status = IF MethodMismatch(routers, templateRoutes, r)
                                                 THEN StatusMethodNotAllowed
                                                 ELSE StatusNotFound]]
    /\ mu' = Unlocked
    /\ UNCHANGED stubVars

\* The number of events of trace up to the terminal handler's, 0 when the
\* terminal handler does not run
UpToHandler(trace) ==
    LET at == { i \in 1..Len(trace) : trace[i].ev = "handler" }
    IN  IF at = {} THEN 0 ELSE CHOOSE i \in at : \A j \in at : i <= j

\* dispatch after s.mu.Unlock(): final.ServeHTTP(w, r) (lines 396, 413) or
\* the error answer (lines 441-445).  The terminal handler, user-supplied
\* code, may call AddHandler or URL on the stub: then the goroutine stands
\* at that call.
dispatchServe(g, reentry) ==
    /\ gor[g].pc = "unlocked"
    /\ reentry = "none" \/ UpToHandler(gor[g].resp.trace) # 0
    /\ LET trace == gor[g].resp.trace
           n == IF reentry = "none" THEN Len(trace) ELSE UpToHandler(trace)
       IN  gor' = [gor EXCEPT
                      ![g].pc = IF reentry = "none" THEN "done" ELSE "reenter",
                      ![g].reentry = reentry,
                      ![g].ran = @ \o Ran(g, SubSeq(trace, 1, n))]
    /\ UNCHANGED <<stubVars, mu>>

\* The handler's call of AddHandler or URL on the stub: it takes the lock;
\* when the call has returned the handler and the middlewares around it run
\* to their end and the request is answered.
handlerReenter(g, method, path) ==
    /\ gor[g].pc = "reenter"
    /\ mu = Unlocked
    /\ IF gor[g].reentry = "AddHandler" THEN AddHandler(method, path, <<>>) ELSE URL
    /\ LET trace == gor[g].resp.trace
       IN  gor' = [gor EXCEPT
                      ![g].pc = "done",
                      ![g].ran = @ \o Ran(g, SubSeq(trace, UpToHandler(trace) + 1, Len(trace)))]
    /\ UNCHANGED mu

\* controlAddHandler on goroutine g: a well-formed request takes the lock
\* (line 366), the others are answered without it.
serveControl(g) ==
    /\ gor[g].pc = "control"
    /\ LET r == ControlRequest(gor[g].req.method, gor[g].req.bodyOk, gor[g].req.spec)
       IN  /\ (r.httpMethod = MethodPost /\ r.bodyOk /\ r.spec.Method # <<>> /\ r.spec.Path # <<>>)
                => mu = Unlocked
           /\ controlAddHandler(r)
    /\ gor' = [gor EXCEPT ![g].pc = "done", ![g].resp = last'.resp]
    /\ UNCHANGED mu

\* Close on a running stub, up to the wait inside Server.Close(): the lock is
\* taken (line 308), the listener is closed, and httptest.Server.Close waits
\* for the outstanding requests.
closeLock ==
    /\ mu = Unlocked
    /\ closeCalls < MaxCloses
    /\ Server # "nil" /\ ~closed
    /\ mu' = HeldBy(Caller)
    /\ Server' = "closing"
    /\ UNCHANGED <<routers, templateRoutes, nreg, closed, mux, baseURL, serverCloses,
                   closeCalls, last, registered, gor>>

\* No request is outstanding: Server.Close() returns, Close sets s.closed and
\* releases the lock (lines 312-314).
closeReturn ==
    /\ mu = HeldBy(Caller)
    /\ Server = "closing"
    /\ \A g \in Goroutines : gor[g].pc \in {"idle", "done"}
    /\ Server' = "shutdown"
    /\ closed' = TRUE
    /\ serverCloses' = serverCloses + 1
    /\ closeCalls' = closeCalls + 1
    /\ mu' = Unlocked
    /\ last' = Last("Close", NoReq, NoResp, FALSE)
    /\ UNCHANGED <<routers, templateRoutes, nreg, mux, baseURL, registered, gor>>

(***************************************************************************)
(* The calls made on a stub                                                *)
(***************************************************************************)
\* AddHandler calls: exact routes under two methods, a method and a path
\* that contain a space, a templated route, and a route with middlewares.
AddHandlerCalls ==
    { << <<"P">>, <<"/", "b">>, <<>> >>,
      << <<"P">>, <<"/", "A", " ", "/", "b">>, <<>> >>,
      << <<"G", " ", "/", "a">>, <<"/", "b">>, <<>> >>,
      << <<"g">>, <<"/", "A", " ", "/", "b">>, <<>> >>,
      << <<"g">>, <<"/", ":", "x", "/", "b">>, <<>> >>,
      << <<"g">>, <<"/", "b">>, <<"m1", "m2">> >> }

\* Control-plane requests: an exact route, with and without a status, a
\* templated route with a query constraint, a route with a query constraint
\* and no placeholder; and the malformed ones: a request that is not a POST,
\* a body that does not decode, a spec without method, a spec without path.
ControlRequests ==
    { ControlRequest(MethodPost, TRUE, DynamicHandlerSpec(MethodGet, <<"/", "b">>, <<>>, 0)),
      ControlRequest(MethodPost, TRUE,
          DynamicHandlerSpec(MethodGet, <<"/", "b">>, <<>>, StatusCreated)),
      ControlRequest(MethodPost, TRUE,
          DynamicHandlerSpec(MethodGet, <<"/", ":", "x", "/", "b">>, [k \in {"k"} |-> "1"], 0)),
      ControlRequest(MethodPost, TRUE,
          DynamicHandlerSpec(MethodGet, <<"/", "b">>, [k \in {"k"} |-> "1"], 0)),
      ControlRequest(MethodGet, TRUE, DynamicHandlerSpec(MethodGet, <<"/", "b">>, <<>>, 0)),
      ControlRequest(MethodPost, FALSE, DynamicHandlerSpec(<<>>, <<>>, <<>>, 0)),
      ControlRequest(MethodPost, TRUE, DynamicHandlerSpec(<<>>, <<"/", "b">>, <<>>, 0)),
      ControlRequest(MethodPost, TRUE, DynamicHandlerSpec(MethodGet, <<>>, <<>>, 0)) }

ReqMethods == { <<"G">>, <<"g">>, <<"P">> }

ReqPaths == { <<"/", "b">>, <<"/", "A", " ", "/", "b">>, <<"/", "x", "/", "b">> }

ReqQueries == { <<>>, [k \in {"k"} |-> <<"1">>] }

Requests == { Request(m, p, q) : m \in ReqMethods, p \in ReqPaths, q \in ReqQueries }

NoCall == [fn |-> "none", tpl |-> <<>>, path |-> <<>>, q |-> <<>>, vals |-> <<>>, mws |-> <<>>]

NoRet == [done |-> FALSE, ok |-> FALSE, trace |-> <<>>]

Init ==
    /\ NewStub
    /\ call = NoCall
    /\ ret = NoRet
    /\ gor = [g \in Goroutines |-> Idle]

Next ==
    \/ \E c \in AddHandlerCalls : AddHandler(c[1], c[2], c[3]) /\ UNCHANGED <<call, ret, mu, gor>>
    \/ \E r \in ControlRequests : controlAddHandler(r) /\ UNCHANGED <<call, ret, mu, gor>>
    \/ \E r \in Requests : dispatch(r) /\ UNCHANGED <<call, ret, mu, gor>>

Spec == Init /\ [][Next]_vars

(***************************************************************************)
(* The life of a stub: started (the port free or occupied), closed, asked  *)
(* for its URL, routes registered before and after, requests sent to the   *)
(* listener.                                                               *)
(***************************************************************************)
LifeAddHandlerCalls ==
    { << <<"G">>, <<"/", "b">>, <<>> >>,
      << <<"g">>, <<"/", ":", "x", "/", "b">>, <<>> >>,
      << <<"G">>, ReadyzPath, <<>> >> }

NoSpec == DynamicHandlerSpec(<<>>, <<>>, <<>>, 0)

LifeSpecs == { DynamicHandlerSpec(MethodGet, <<"/", "b">>, <<>>, StatusCreated) }

\* Requests sent to the listener: for a registered route, for a templated
\* route, the readiness probe under two methods, a control-plane request.
LifeRequests ==
    { HTTPRequest(MethodGet, <<"/", "b">>, <<>>, TRUE, NoSpec),
      HTTPRequest(MethodGet, <<"/", "x", "/", "b">>, <<>>, TRUE, NoSpec),
      HTTPRequest(MethodGet, ReadyzPath, <<>>, TRUE, NoSpec),
      HTTPRequest(MethodPost, ReadyzPath, <<>>, TRUE, NoSpec) }
    \cup { HTTPRequest(MethodPost, ControlPath, <<>>, TRUE, sp) : sp \in LifeSpecs }

LifeNext ==
    \/ \E b \in BOOLEAN : Start(b) /\ UNCHANGED <<call, ret, mu, gor>>
    \/ Close /\ UNCHANGED <<call, ret, mu, gor>>
    \/ URL /\ UNCHANGED <<call, ret, mu, gor>>
    \/ \E c \in LifeAddHandlerCalls : AddHandler(c[1], c[2], c[3]) /\ UNCHANGED <<call, ret, mu, gor>>
    \/ \E sp \in LifeSpecs :
          controlAddHandler(ControlRequest(MethodPost, TRUE, sp)) /\ UNCHANGED <<call, ret, mu, gor>>
    \/ \E r \in LifeRequests : muxServeHTTP(r) /\ UNCHANGED <<call, ret, mu, gor>>

LifeSpec == Init /\ [][LifeNext]_vars

(***************************************************************************)
(* Registration looked at closely: routes registered by AddHandler and by  *)
(* the control plane under a method written in both letter cases, with and *)
(* without a placeholder and a query constraint, malformed control-plane   *)
(* requests, and requests under both letter cases.                         *)
(***************************************************************************)
CaseMethods == { <<"G">>, <<"g">> }

CaseAddHandlerCalls ==
    { <<m, p, <<>> >> : m \in CaseMethods, p \in { <<"/", "b">>, <<"/", ":", "x", "/", "b">> } }

\* Control-plane requests: a literal path, a literal path with a query
\* constraint, a placeholder without one; not a POST, a body that does not
\* decode, no method, no path.
CaseControlRequests ==
    { ControlRequest(MethodPost, TRUE, DynamicHandlerSpec(<<"g">>, <<"/", "b">>, <<>>, 0)),
      ControlRequest(MethodPost, TRUE,
          DynamicHandlerSpec(MethodGet, <<"/", "b">>, [k \in {"k"} |-> "1"], 0)),
      ControlRequest(MethodPost, TRUE,
          DynamicHandlerSpec(<<"g">>, <<"/", ":", "x", "/", "b">>, <<>>, StatusCreated)),
      ControlRequest(MethodGet, TRUE, DynamicHandlerSpec(MethodGet, <<"/", "b">>, <<>>, 0)),
      ControlRequest(MethodPost, FALSE, NoSpec),
      ControlRequest(MethodPost, TRUE, DynamicHandlerSpec(<<>>, <<"/", "b">>, <<>>, 0)),
      ControlRequest(MethodPost, TRUE, DynamicHandlerSpec(MethodGet, <<>>, <<>>, 0)) }

CaseRequests ==
    { Request(m, p, q) : m \in CaseMethods, p \in { <<"/", "b">>, <<"/", "x", "/", "b">> },
                         q \in ReqQueries }

CaseNext ==
    \/ \E c \in CaseAddHandlerCalls : AddHandler(c[1], c[2], c[3]) /\ UNCHANGED <<call, ret, mu, gor>>
    \/ \E r \in CaseControlRequests : controlAddHandler(r) /\ UNCHANGED <<call, ret, mu, gor>>
    \/ \E r \in CaseRequests : dispatch(r) /\ UNCHANGED <<call, ret, mu, gor>>

CaseSpec == Init /\ [][CaseNext]_vars

(***************************************************************************)
(* A running stub with requests in flight: the caller starts it, registers *)
(* routes and closes it while goroutines serve requests.                   *)
(***************************************************************************)
ConcAddHandlerCalls == { << <<"G">>, <<"/", "b">>, <<"m1">> >> }

ConcRequests ==
    { HTTPRequest(MethodGet, <<"/", "b">>, <<>>, TRUE, NoSpec) }
    \cup { HTTPRequest(MethodPost, ControlPath, <<>>, TRUE, sp) : sp \in LifeSpecs }

Reentries == {"none", "AddHandler", "URL"}

ConcNext ==
    \/ \E b \in BOOLEAN : mu = Unlocked /\ Start(b) /\ UNCHANGED <<call, ret, mu, gor>>
    \/ mu = Unlocked /\ URL /\ UNCHANGED <<call, ret, mu, gor>>
    \/ \E c \in ConcAddHandlerCalls :
          mu = Unlocked /\ AddHandler(c[1], c[2], c[3]) /\ UNCHANGED <<call, ret, mu, gor>>
    \/ closeLock /\ UNCHANGED <<call, ret>>
    \/ closeReturn /\ UNCHANGED <<call, ret>>
    \/ (mu = Unlocked /\ (Server = "nil" \/ closed)) /\ Close /\ UNCHANGED <<call, ret, mu, gor>>
    \/ \E g \in Goroutines, r \in ConcRequests : Accept(g, r) /\ UNCHANGED <<call, ret>>
    \/ \E g \in Goroutines : dispatchLock(g) /\ UNCHANGED <<call, ret>>
    \/ \E g \in Goroutines : dispatchLookup(g) /\ UNCHANGED <<call, ret>>
    \/ \E g \in Goroutines, e \in Reentries : dispatchServe(g, e) /\ UNCHANGED <<call, ret>>
    \/ \E g \in Goroutines :
          handlerReenter(g, MethodGet, <<"/", "b">>) /\ UNCHANGED <<call, ret>>
    \/ \E g \in Goroutines : serveControl(g) /\ UNCHANGED <<call, ret>>

ConcSpec == Init /\ [][ConcNext]_vars

(***************************************************************************)
(* Registration while requests are dispatched, the reads of dispatch taken *)
(* one by one: the exact lookup, the template scan, the classification.    *)
(***************************************************************************)
ReadAddHandlerCalls ==
    { << <<"P">>, <<"/", "b">>, <<>> >>,
      << <<"g">>, <<"/", ":", "x">>, <<"m1">> >> }

ReadRequests ==
    { HTTPRequest(m, <<"/", "b">>, <<>>, TRUE, NoSpec) : m \in {MethodGet, MethodPost} }
    \cup { HTTPRequest(MethodPost, ControlPath, <<>>, TRUE, sp) : sp \in LifeSpecs }

\* The goroutines that serve them
Readers == 1..MaxReaders

ReadNext ==
    \/ \E b \in BOOLEAN : mu = Unlocked /\ Start(b) /\ UNCHANGED <<call, ret, mu, gor>>
    \/ \E c \in ReadAddHandlerCalls :
          mu = Unlocked /\ AddHandler(c[1], c[2], c[3]) /\ UNCHANGED <<call, ret, mu, gor>>
    \/ \E g \in Readers, r \in ReadRequests : Accept(g, r) /\ UNCHANGED <<call, ret>>
    \/ \E g \in Goroutines : dispatchLock(g) /\ UNCHANGED <<call, ret>>
    \/ \E g \in Goroutines : dispatchExact(g) /\ UNCHANGED <<call, ret>>
    \/ \E g \in Goroutines : dispatchScan(g) /\ UNCHANGED <<call, ret>>
    \/ \E g \in Goroutines : dispatchClassify(g) /\ UNCHANGED <<call, ret>>
    \/ \E g \in Goroutines : dispatchServe(g, "none") /\ UNCHANGED <<call, ret>>
    \/ \E g \in Goroutines : serveControl(g) /\ UNCHANGED <<call, ret>>

ReadSpec == Init /\ [][ReadNext]_vars

(***************************************************************************)
(* Calls of the pure functions pathMatch, queryMatch and chainMiddleware   *)
(* on arguments drawn from bounded sets                                    *)
(***************************************************************************)
SeqsUpTo(S, n) == UNION { [1..k -> S] : k \in 0..n }

\* raw paths: strings over "/", ":" and a letter
RawPaths == SeqsUpTo({"/", ":", "a"}, MaxPathLen)

\* template segments: the empty literal, a literal, and placeholders
TemplateSegments == { <<>>, <<"a">>, <<":">>, <<":", "a">> }

Templates == SeqsUpTo(TemplateSegments, MaxSegs)

QueryNames == {"k", "j"}

QueryValues == {"", "1", "2"}

\* required query parameters: a map from some names to values
RequiredParams == UNION { [D -> QueryValues] : D \in SUBSET QueryNames }

\* url.Values: a map from some names to lists of values
UrlValues == UNION { [D -> SeqsUpTo(QueryValues, MaxVals)] : D \in SUBSET QueryNames }

MiddlewareLists == SeqsUpTo(Middlewares, MaxMws)

PathMatchCall(tpl, path) == [NoCall EXCEPT !.fn = "pathMatch", !.tpl = tpl, !.path = path]

QueryMatchCall(q, vals) == [NoCall EXCEPT !.fn = "queryMatch", !.q = q, !.vals = vals]

ChainCall(mws) == [NoCall EXCEPT !.fn = "chainMiddleware", !.mws = mws]

FnInit ==
    /\ NewStub
    /\ call \in { PathMatchCall(t, p) : t \in Templates, p \in RawPaths }
           \cup { QueryMatchCall(q, v) : q \in RequiredParams, v \in UrlValues }
           \cup { ChainCall(mws) : mws \in MiddlewareLists }
    /\ ret = NoRet
    /\ gor = [g \in Goroutines |-> Idle]

CallPathMatch ==
    /\ call.fn = "pathMatch"
    /\ ~ret.done
    /\ ret' = [NoRet EXCEPT !.done = TRUE, !.ok = pathMatch(call.tpl, call.path)]
    /\ UNCHANGED <<call, stubVars, mu, gor>>

CallQueryMatch ==
    /\ call.fn = "queryMatch"
    /\ ~ret.done
    /\ ret' = [NoRet EXCEPT !.done = TRUE, !.ok = queryMatch(call.q, call.vals)]
    /\ UNCHANGED <<call, stubVars, mu, gor>>

\* chainMiddleware(h, mws...) is called and the handler it returns serves a
\* request.
CallChain ==
    /\ call.fn = "chainMiddleware"
    /\ ~ret.done
    /\ ret' = [NoRet EXCEPT !.done = TRUE, !.ok = TRUE,
                 !.trace = ServeHTTP(chainMiddleware(Terminal(HandlerValue(1, StatusOK)), call.mws))]
    /\ UNCHANGED <<call, stubVars, mu, gor>>

FnNext == CallPathMatch \/ CallQueryMatch \/ CallChain

FnSpec == FnInit /\ [][FnNext]_vars

(***************************************************************************)
(* Properties of the middleware chain (FnSpec)                             *)
(***************************************************************************)
\* The order of events the nesting of the first n middlewares of mws around
\* the events inner gives: before 1..n, inner, after n..1.
Nested(mws, n, inner) ==
    [i \in 1..n |-> Event("before", mws[i], 0, 0)]
    \o inner
    \o [i \in 1..n |-> Event("after", mws[n + 1 - i], 0, 0)]

\* Positions of mws whose middleware does not call next
Blocking(mws) == { i \in 1..Len(mws) : ~CallsNext(mws[i]) }

Least(S) == CHOOSE x \in S : \A y \in S : x <= y

ChainServed == call.fn = "chainMiddleware" /\ ret.done

\* C6: when every middleware calls next, the composed handler runs
\* m1-before, ..., mn-before, the terminal handler, mn-after, ..., m1-after,
\* each exactly once; with no middleware the terminal handler alone runs.
C6_ChainOrder ==
    (ChainServed /\ Blocking(call.mws) = {})
        => ret.trace = Nested(call.mws, Len(call.mws),
                              <<Event("handler", "", 1, StatusOK)>>)

C6_Witness ==
    /\ ChainServed
    /\ call.mws = <<"m1", "m2">>
    /\ Len(ret.trace) = 5
    /\ ret.trace[1].mw = "m1"
    /\ ret.trace[3].ev = "handler"

\* C7: when the middleware at position i does not call next, neither the
\* terminal handler nor any middleware after position i runs, and the
\* middlewares before position i run their pre- and post-logic in nesting
\* order around it.
C7_ShortCircuit ==
    (ChainServed /\ Blocking(call.mws) # {})
        => LET i == Least(Blocking(call.mws))
           IN  /\ ret.trace = Nested(call.mws, i - 1,
                                     <<Event("short", call.mws[i], 0, StatusUnauthorized)>>)
               /\ \A j \in 1..Len(ret.trace) : ret.trace[j].ev # "handler"

C7_Witness ==
    /\ ChainServed
    /\ call.mws = <<"m1", "mB", "m2">>
    /\ Len(ret.trace) = 3
    /\ ret.trace[2].ev = "short"

(***************************************************************************)
(* Properties of the matchers (FnSpec)                                     *)
(***************************************************************************)
\* The path without its leading and trailing slashes, and the number of its
\* segments, stated without Trim and Split.
Stripped(p) ==
    LET idx == { i \in 1..Len(p) : p[i] # "/" }
    IN  IF idx = {} THEN <<>>
        ELSE SubSeq(p, CHOOSE i \in idx : \A j \in idx : i <= j,
                       CHOOSE i \in idx : \A j \in idx : i >= j)

SegmentCount(p) == 1 + Cardinality({ i \in 1..Len(Stripped(p)) : Stripped(p)[i] = "/" })

PathMatched == call.fn = "pathMatch" /\ ret.done

\* C8: pathMatch returns false for every request path whose number of
\* segments differs from the number of segments of the template, with or
\* without placeholders; the root path "/" has one segment.
C8_SegmentCount ==
    (PathMatched /\ SegmentCount(call.path) # Len(call.tpl)) => ~ret.ok

C8_Witness ==
    /\ PathMatched
    /\ call.path = <<"/", "a", "/", "a">>
    /\ call.tpl = << <<":", "a">> >>
    /\ ~ret.ok

\* C9: pathMatch is true exactly when the segment counts agree, every literal
\* template segment equals the request segment at its position, and every
\* placeholder stands opposite a non-empty request segment.
C9_PlaceholderNonEmpty ==
    PathMatched =>
        LET reqSegs == Segments(call.path)
        IN  ret.ok <=>
              /\ Len(reqSegs) = Len(call.tpl)
              /\ \A i \in 1..Len(call.tpl) :
                    IF HasPrefix(call.tpl[i], <<":">>)
                    THEN reqSegs[i] # <<>>
                    ELSE reqSegs[i] = call.tpl[i]

QueryMatched == call.fn = "queryMatch" /\ ret.done

\* C10: queryMatch returns true whenever every required name occurs in the
\* request query with an equal first value, whatever else the query carries;
\* an empty or absent requirement matches every query.
C10_QuerySubset ==
    (QueryMatched /\ \A k \in DOMAIN call.q :
                        /\ k \in DOMAIN call.vals
                        /\ Len(call.vals[k]) >= 1
                        /\ call.vals[k][1] = call.q[k])
        => ret.ok

C10_Witness ==
    /\ QueryMatched
    /\ DOMAIN call.q = {"k"}
    /\ call.q["k"] = "1"
    /\ DOMAIN call.vals = {"k", "j"}
    /\ call.vals["k"] = <<"1", "2">>
    /\ ret.ok

\* Required name k is missing from the request query, or stands there with a
\* first value other than the required one.
Unmet(q, vals, k) ==
    \/ k \notin DOMAIN vals
    \/ (k \in DOMAIN vals /\ Len(vals[k]) >= 1 /\ vals[k][1] # q[k])

\* C11: queryMatch returns false whenever some required name is absent from
\* the request query or present with a first value other than the required
\* one, for every required value, the empty string included.
C11_QueryNegative ==
    (QueryMatched /\ \E k \in DOMAIN call.q : Unmet(call.q, call.vals, k))
        => ~ret.ok

\* The same for required values other than the empty string.
QueryNegativeNonEmpty ==
    (QueryMatched /\ \E k \in DOMAIN call.q :
                        call.q[k] # "" /\ Unmet(call.q, call.vals, k))
        => ~ret.ok

(***************************************************************************)
(* Properties of dispatch (Spec)                                           *)
(***************************************************************************)
Dispatched == last.op = "dispatch"

\* The registration call that made the entry now stored under key k
ExactRegistration(k) == registered[routers[k].handler.id]

\* The exact route stored under key k was registered with the method (up to
\* the normalization of registration) and the path of request r.
ExactRouteOf(k, r) ==
    /\ ToUpper(ExactRegistration(k).method) = ToUpper(r.method)
    /\ ExactRegistration(k).path = r.path

\* The exact route stored under key k was registered with the path of r.
ExactPathOf(k, r) == ExactRegistration(k).path = r.path

\* Templated route i matches request r on path and query.
TemplatePathQuery(i, r) ==
    /\ pathMatch(templateRoutes[i].segments, r.path)
    /\ queryMatch(templateRoutes[i].queries, r.query)

\* Templated route i matches request r on method, path and query.
TemplateOf(i, r) ==
    /\ templateRoutes[i].method = r.method
    /\ TemplatePathQuery(i, r)

\* The same, the methods compared up to letter case.
TemplateUpToCaseOf(i, r) ==
    /\ templateRoutes[i].method = ToUpper(r.method)
    /\ TemplatePathQuery(i, r)

TemplateIndexes == 1..Len(templateRoutes)

\* The response that runs the composed handler of route entry info, all of
\* whose middlewares call next.
RunsHandlerOf(info, resp) ==
    /\ resp.kind = "handler"
    /\ resp.h = info.handler.id
    /\ resp.trace = Nested(info.middlewares, Len(info.middlewares),
                           <<Event("handler", "", info.handler.id, info.handler.status)>>)

\* C1: a request with the method and path of a registered exact route whose
\* key has not been overwritten since runs that route's composed handler.
C1_ExactRouteResolves ==
    Dispatched =>
        \A k \in DOMAIN routers :
            ExactRouteOf(k, last.req) => RunsHandlerOf(routers[k], last.resp)

C1_Witness ==
    /\ Dispatched
    /\ last.req.method = <<"g">>
    /\ \E k \in DOMAIN routers :
          /\ ExactRouteOf(k, last.req)
          /\ routers[k].middlewares = <<"m1", "m2">>
          /\ routers[k].handler.id = 2
          /\ last.resp.h = 2

\* C2: when an exact route and a templated route both match a request's
\* method and path (the template's query constraints satisfied), dispatch
\* runs the exact route's handler, whichever was registered first.
C2_ExactPrecedence ==
    Dispatched =>
        \A k \in DOMAIN routers :
            (/\ ExactRouteOf(k, last.req)
             /\ \E i \in TemplateIndexes : TemplateUpToCaseOf(i, last.req))
                => RunsHandlerOf(routers[k], last.resp)

C2_Witness ==
    /\ Dispatched
    /\ \E k \in DOMAIN routers, i \in TemplateIndexes :
          /\ ExactRouteOf(k, last.req)
          /\ TemplateOf(i, last.req)
          /\ templateRoutes[i].info.handler.id < routers[k].handler.id
          /\ last.resp.h = routers[k].handler.id

\* C3: when no exact route matches (no exact route was registered with the
\* request's method, up to letter case, and path) and several templated
\* routes match a request on method, path and query, dispatch runs the
\* handler of the one registered earliest.
C3_FirstTemplateWins ==
    Dispatched =>
        LET hits == { i \in TemplateIndexes : TemplateOf(i, last.req) }
        IN  (/\ \A k \in DOMAIN routers : ~ExactRouteOf(k, last.req)
             /\ Cardinality(hits) >= 2)
                => RunsHandlerOf(templateRoutes[Least(hits)].info, last.resp)

\* C4: a request that no route matches on method (the methods compared up
\* to letter case), but whose path is the path of an exact route, or whose
\* path and query match a templated route, registered under another method,
\* is answered 405 and never 404.
C4_MethodNotAllowed ==
    Dispatched =>
        ((/\ \A k \in DOMAIN routers : ~ExactRouteOf(k, last.req)
          /\ \A i \in TemplateIndexes : ~TemplateUpToCaseOf(i, last.req)
          /\ \/ \E k \in DOMAIN routers : ExactPathOf(k, last.req)
             \/ \E i \in TemplateIndexes : TemplatePathQuery(i, last.req))
            => (last.resp.kind = "error" /\ last.resp.status = StatusMethodNotAllowed))

\* C5: a request is answered 404 whenever no exact route is registered, under
\* any method, with the request's path and no templated route, under any
\* method, matches the request's path and query.
C5_NotFound ==
    Dispatched =>
        ((/\ \A k \in DOMAIN routers : ~ExactPathOf(k, last.req)
          /\ \A i \in TemplateIndexes : ~TemplatePathQuery(i, last.req))
            => (last.resp.kind = "error" /\ last.resp.status = StatusNotFound))

\* The registration calls that stored an exact route, and the key of each
ExactCalls ==
    { n \in 1..Len(registered) :
        /\ ~Contains(registered[n].path, <<":">>)
        /\ DOMAIN registered[n].query = {} }

KeyOfCall(n) == RouteKey(registered[n].method, registered[n].path)

Greatest(S) == CHOOSE x \in S : \A y \in S : x >= y

HandlerEvents(trace) == { i \in 1..Len(trace) : trace[i].ev = "handler" }

\* C12: registering an exact key again, on a stub that is not closed,
\* replaces the whole entry (handler and middleware list) without error; the
\* registry holds one entry per key registered, so its size does not grow on
\* a repeated key; a request for the key runs the handler registered latest
\* under it, and no other.
C12_LastWriteWins ==
    LET calls == ExactCalls
        keyOf == [n \in calls |-> KeyOfCall(n)]
        \* the latest call that stored an exact route under key k
        latest == [k \in DOMAIN routers |-> Greatest({ n \in calls : keyOf[n] = k })]
        reqKey == RouteKey(last.req.method, last.req.path)
    IN  /\ (last.op \in {"AddHandler", "control"} /\ ~closed) => ~last.panicked
        /\ DOMAIN routers = { keyOf[n] : n \in calls }
        /\ \A k \in DOMAIN routers :
              /\ routers[k].handler.id = latest[k]
              /\ routers[k].middlewares = registered[latest[k]].mws
        /\ (Dispatched /\ reqKey \in DOMAIN routers)
              => /\ last.resp.kind = "handler"
                 /\ last.resp.h = latest[reqKey]
                 /\ \A i \in HandlerEvents(last.resp.trace) :
                       last.resp.trace[i].h = latest[reqKey]

C12_Witness ==
    /\ Dispatched
    /\ nreg = 3
    /\ Cardinality(DOMAIN routers) = 1
    /\ registered[1].by = "AddHandler"
    /\ registered[1].mws = <<"m1", "m2">>
    /\ registered[3].by = "control"
    /\ last.resp.h = 3
    /\ last.resp.trace = <<Event("handler", "", 3, StatusCreated)>>

\* The AddHandler calls made, and those of them that name a literal path
AddHandlerCallsMade == { n \in 1..Len(registered) : registered[n].by = "AddHandler" }

LiteralCalls == { n \in AddHandlerCallsMade : ~Contains(registered[n].path, <<":">>) }

\* The calls that name the path of call n and the method of call n in some
\* letter-casing
SameUpToCase(n) ==
    { j \in AddHandlerCallsMade :
        /\ ToUpper(registered[j].method) = ToUpper(registered[n].method)
        /\ registered[j].path = registered[n].path }

\* The key "METHOD path" with the method of call n in upper case
UpperKeyOfCall(n) == ToUpper(registered[n].method) \o <<" ">> \o registered[n].path

\* C22: AddHandler stores the method in upper case: calls that differ in the
\* letter-casing of the method only make one route (one exact key, holding
\* the latest of them or a later entry; the same method on the templated
\* routes), and a request with the method in upper case resolves to it.
C22_MethodUppercased ==
    /\ \A n \in LiteralCalls :
          /\ UpperKeyOfCall(n) \in DOMAIN routers
          /\ routers[UpperKeyOfCall(n)].handler.id >= Greatest(SameUpToCase(n))
    /\ Cardinality(DOMAIN routers) <= Cardinality({ UpperKeyOfCall(n) : n \in ExactCalls })
    /\ \A i \in TemplateIndexes :
          LET n == templateRoutes[i].info.handler.id
          IN  registered[n].by = "AddHandler"
                 => templateRoutes[i].method = ToUpper(registered[n].method)
    /\ \A n \in AddHandlerCallsMade :
          (/\ Dispatched
           /\ last.req.method = ToUpper(registered[n].method)
           /\ IF n \in LiteralCalls
              THEN last.req.path = registered[n].path
              ELSE pathMatch(Segments(registered[n].path), last.req.path))
              => /\ last.resp.kind = "handler"
                 /\ IF n \in LiteralCalls
                    THEN last.resp.h = routers[UpperKeyOfCall(n)].handler.id
                    ELSE \/ last.resp.h \in ExactCalls
                         \/ /\ last.resp.h <= n
                            /\ ToUpper(registered[last.resp.h].method) = last.req.method

C22_Witness ==
    /\ Dispatched
    /\ nreg = 3
    /\ registered[1].method = <<"g">>
    /\ registered[2].method = <<"G">>
    /\ registered[3].method = <<"g">>
    /\ registered[1].path = registered[2].path
    /\ Cardinality(DOMAIN routers) = 1
    /\ Len(templateRoutes) = 1
    /\ templateRoutes[1].method = <<"G">>
    /\ last.req.method = <<"G">>
    /\ last.resp.h = 2

\* C23: a control-plane registration is appended to the templated routes
\* exactly when its path contains the marker ":" or it carries a query
\* constraint, and otherwise inserts or overwrites the exact route of its
\* upper-case method and its path; AddHandler appends a templated route,
\* without query constraints, exactly when the path contains the marker, and
\* otherwise inserts or overwrites the exact route.
C23_TemplatedIff ==
    [][nreg' = nreg + 1 =>
          LET reg == registered'[nreg']
              marked == Contains(reg.path, <<":">>)
              constrained == DOMAIN reg.query # {}
              templated == IF reg.by = "control" THEN marked \/ constrained ELSE marked
              key == ToUpper(reg.method) \o <<" ">> \o reg.path
          IN  /\ reg.by = "AddHandler" => ~constrained
              /\ IF templated
                 THEN /\ routers' = routers
                      /\ Len(templateRoutes') = Len(templateRoutes) + 1
                      /\ SubSeq(templateRoutes', 1, Len(templateRoutes)) = templateRoutes
                      /\ LET tr == templateRoutes'[Len(templateRoutes')]
                         IN  /\ tr.info.handler.id = nreg'
                             /\ tr.method = ToUpper(reg.method)
                             /\ tr.segments = Segments(reg.path)
                             /\ tr.queries = reg.query
                 ELSE /\ templateRoutes' = templateRoutes
                      /\ DOMAIN routers' = DOMAIN routers \cup {key}
                      /\ routers'[key].handler.id = nreg'
                      /\ \A k \in DOMAIN routers \ {key} : routers'[k] = routers[k]]_vars

C23_Witness ==
    /\ last.op = "control"
    /\ last.resp.kind = "created"
    /\ nreg = 3
    /\ registered[1].by = "control"
    /\ registered[1].path = <<"/", "b">>
    /\ DOMAIN registered[1].query = {}
    /\ registered[2].by = "AddHandler"
    /\ Contains(registered[2].path, <<":">>)
    /\ registered[3].by = "control"
    /\ registered[3].path = <<"/", "b">>
    /\ DOMAIN registered[3].query = {"k"}
    /\ DOMAIN routers = { <<"G", " ", "/", "b">> }
    /\ routers[<<"G", " ", "/", "b">>].handler.id = 1
    /\ Len(templateRoutes) = 2
    /\ templateRoutes[2].info.handler.id = 3
    /\ templateRoutes[1].queries = <<>>

\* The body of control-plane request r does not decode, or the decoded spec
\* lacks the method or the path.
Malformed(r) == ~r.bodyOk \/ r.spec.Method = <<>> \/ r.spec.Path = <<>>

\* Exactly one route is registered by the step: one templated route is
\* appended, or the entry of one key of the map is set to a new handler.
RegistersOneRoute ==
    \/ /\ routers' = routers
       /\ Len(templateRoutes') = Len(templateRoutes) + 1
       /\ SubSeq(templateRoutes', 1, Len(templateRoutes)) = templateRoutes
       /\ templateRoutes'[Len(templateRoutes')].info.handler.id = nreg'
    \/ /\ templateRoutes' = templateRoutes
       /\ \E key \in DOMAIN routers' :
             /\ DOMAIN routers' = DOMAIN routers \cup {key}
             /\ routers'[key].handler.id = nreg'
             /\ \A k \in DOMAIN routers \ {key} : routers'[k] = routers[k]

\* C24: a POST to the control plane whose body does not decode, or whose spec
\* lacks the method or the path, is answered 400 and leaves the exact-route
\* map and the templated-route list unchanged; a well-formed one is answered
\* 201 and registers exactly one route.
C24_MalformedRejected ==
    [][\A r \in CaseControlRequests :
          (r.httpMethod = MethodPost /\ controlAddHandler(r))
             => IF Malformed(r)
                THEN /\ last'.resp.kind = "error"
                     /\ last'.resp.status = StatusBadRequest
                     /\ UNCHANGED <<routers, templateRoutes, nreg, registered>>
                ELSE /\ last'.resp.kind = "created"
                     /\ last'.resp.status = StatusCreated
                     /\ nreg' = nreg + 1
                     /\ RegistersOneRoute]_vars

C24_Witness ==
    /\ last.op = "control"
    /\ last.resp.status = StatusBadRequest
    /\ nreg = 2
    /\ registered[2].by = "control"
    /\ Cardinality(DOMAIN routers) = 1
    /\ Len(templateRoutes) = 1

\* The route entries of the registry
RouteEntries ==
    { routers[k] : k \in DOMAIN routers }
        \cup { templateRoutes[i].info : i \in TemplateIndexes }

\* C27: every dispatch has exactly one outcome: it runs the composed handler
\* of exactly one route and writes no failure status of its own, or it
\* answers 405, or it answers 404, running no handler; it does not end
\* without one of the three.
C27_OneOutcome ==
    Dispatched =>
        LET resp == last.resp
            ran == { e \in RouteEntries : e.handler.id = resp.h }
        IN  \/ /\ resp.kind = "handler"
               /\ Cardinality(ran) = 1
               /\ \A e \in ran :
                     resp.trace = ServeHTTP(chainMiddleware(Terminal(e.handler), e.middlewares))
               /\ resp.status = FirstStatus(resp.trace)
               /\ \A i \in 1..Len(resp.trace) :
                     /\ resp.trace[i].ev # "error"
                     /\ resp.trace[i].ev = "handler" => resp.trace[i].h = resp.h
               /\ Cardinality(HandlerEvents(resp.trace)) <= 1
            \/ /\ resp.kind = "error"
               /\ resp.status \in {StatusMethodNotAllowed, StatusNotFound}
               /\ resp.trace = <<>>
               /\ resp.h = 0

C27_Witness ==
    /\ Dispatched
    /\ last.req.path = <<"/", "b">>
    /\ DOMAIN last.req.query = {"k"}
    /\ RouteKey(last.req.method, last.req.path) \in DOMAIN routers
    /\ \E i \in TemplateIndexes : TemplateOf(i, last.req)
    /\ last.resp.kind = "handler"
    /\ Len(last.resp.trace) = 5
    /\ Cardinality(HandlerEvents(last.resp.trace)) = 1

\* The templated routes that match request r, the methods compared up to
\* letter case
HitsUpToCase(r) == { i \in TemplateIndexes : TemplateUpToCaseOf(i, r) }

\* The request is answered by the route its method (up to letter case), path
\* and query name: the exact one, else the earliest templated one; and it is
\* not answered 405 when there is such a route.
ResolvedUpToCase ==
    /\ \A k \in DOMAIN routers :
          ExactRouteOf(k, last.req)
             => (last.resp.kind = "handler" /\ last.resp.h = routers[k].handler.id)
    /\ (/\ \A k \in DOMAIN routers : ~ExactRouteOf(k, last.req)
        /\ HitsUpToCase(last.req) # {})
          => /\ last.resp.kind = "handler"
             /\ last.resp.h = templateRoutes[Least(HitsUpToCase(last.req))].info.handler.id
    /\ (\/ \E k \in DOMAIN routers : ExactRouteOf(k, last.req)
        \/ HitsUpToCase(last.req) # {})
          => last.resp.status # StatusMethodNotAllowed

\* C32: a request whose method is a route's registered method up to letter
\* case resolves to that route, be it stored as an exact or as a templated
\* route, and is not answered 405 against a route of its own method.
C32_MethodCaseUniform == Dispatched => ResolvedUpToCase

\* The same of requests whose method is written in upper case, and of
\* requests that no templated route matches up to letter case.
MethodCaseUpperRequest ==
    (Dispatched /\ last.req.method = ToUpper(last.req.method)) => ResolvedUpToCase

MethodCaseOnExact ==
    (Dispatched /\ HitsUpToCase(last.req) = {}) => ResolvedUpToCase

\* The pair (upper-cased method, path) of registration call n
PairOfCall(n) == <<ToUpper(registered[n].method), registered[n].path>>

\* The registration calls whose entries the exact registry now holds
StoredCalls == { routers[k].handler.id : k \in DOMAIN routers }

\* The exact registry is a mapping keyed by the pair (upper-cased method,
\* path): the latest call of every pair is stored; a request served by an
\* exact route has that route's pair; and an answer 405 has an exact route
\* of the request's whole path, or a templated route that matches the path
\* and query, behind it.
PairKeyed ==
    /\ \A n \in ExactCalls :
          Greatest({ j \in ExactCalls : PairOfCall(j) = PairOfCall(n) }) \in StoredCalls
    /\ Dispatched =>
          /\ (last.resp.kind = "handler" /\ last.resp.h \in StoredCalls)
                => PairOfCall(last.resp.h) = <<ToUpper(last.req.method), last.req.path>>
          /\ last.resp.status = StatusMethodNotAllowed
                => \/ \E n \in StoredCalls : registered[n].path = last.req.path
                   \/ \E i \in TemplateIndexes : TemplatePathQuery(i, last.req)

\* C33: the exact registry behaves as a mapping keyed by the pair
\* (upper-cased method, path), for all method and path strings, those that
\* contain a space included: two registrations overwrite one another only if
\* their pairs are equal, and an exact route matches a request path, for
\* lookup and for the 405 classification, only if its path is the whole
\* request path.
C33_PairKeyedRegistry == PairKeyed

\* The same on a stub none of whose registered methods and paths contains a
\* space.
PairKeyedWithoutSpace ==
    (\A n \in 1..Len(registered) :
        /\ ~Contains(registered[n].method, <<" ">>)
        /\ ~Contains(registered[n].path, <<" ">>))
       => PairKeyed

(***************************************************************************)
(* What holds of the template scan and of the classification when the      *)
(* exact lookup misses, that is when the request's key is no key of the    *)
(* registry (the key of another method and path may be the same string).   *)
(***************************************************************************)
LookupMisses == RouteKey(last.req.method, last.req.path) \notin DOMAIN routers

\* After a lookup miss the earliest registered matching templated route runs.
TemplateOrderOnLookupMiss ==
    (Dispatched /\ LookupMisses) =>
        LET hits == { i \in TemplateIndexes : TemplateOf(i, last.req) }
        IN  hits # {} => RunsHandlerOf(templateRoutes[Least(hits)].info, last.resp)

\* After a lookup miss with no templated route matching on method, a request
\* whose path is known under another method is answered 405.
NotAllowedOnLookupMiss ==
    (/\ Dispatched
     /\ LookupMisses
     /\ \A i \in TemplateIndexes : ~TemplateOf(i, last.req)
     /\ \/ \E k \in DOMAIN routers : ExactPathOf(k, last.req)
        \/ \E i \in TemplateIndexes : TemplatePathQuery(i, last.req))
        => (last.resp.kind = "error" /\ last.resp.status = StatusMethodNotAllowed)

(***************************************************************************)
(* Properties of the life of a stub (LifeSpec)                             *)
(***************************************************************************)
\* A request sent to the listener for a user route has been handled.
Answered == last.op \in {"dispatch", "aborted"}

\* The AddHandler calls made while the server was running, with the method
\* and the path of request r
AddedWhileRunning(r) ==
    { n \in 1..Len(registered) :
        /\ registered[n].by = "AddHandler"
        /\ registered[n].server = "listening"
        /\ registered[n].method = r.method
        /\ registered[n].path = r.path }

\* C13: AddHandler called on a running server does not panic, and a request
\* sent after the call has returned, with the method and path of the call, is
\* answered by a handler (never 404 or 405, never left without an answer).
C13_RegistrationWhileRunning ==
    /\ (last.op = "AddHandler" /\ Server = "listening") => ~last.panicked
    /\ (Answered /\ AddedWhileRunning(last.req) # {}) => last.resp.kind = "handler"

\* The same on a stub none of whose Start calls failed.
RegistrationWhileRunningIntactMux ==
    mux = "mux" =>
        /\ (last.op = "AddHandler" /\ Server = "listening") => ~last.panicked
        /\ (Answered /\ AddedWhileRunning(last.req) # {}) => last.resp.kind = "handler"

\* C17: on a stub that Close has shut down, AddHandler panics, a
\* control-plane registration is rejected, and either leaves the exact-route
\* map and the templated-route list as they were.
C17_ClosedRegistryFrozen ==
    [][(closed /\ last'.op \in {"AddHandler", "control"})
          => /\ routers' = routers
             /\ templateRoutes' = templateRoutes
             /\ last'.op = "AddHandler" => last'.panicked
             /\ last'.op = "control" => last'.resp.kind # "created"]_vars

\* The half of it that is AddHandler's
AddHandlerOnClosedPanics ==
    [][(closed /\ last'.op = "AddHandler")
          => /\ routers' = routers
             /\ templateRoutes' = templateRoutes
             /\ last'.panicked]_vars

\* C18: Start on a stub that has been started returns an error and changes
\* nothing: the server, the base URL and the registry stay as they are.
C18_DoubleStart ==
    [][(Server # "nil" /\ last'.op = "Start")
          => /\ last'.resp.kind = "error"
             /\ last'.resp.body = ErrAlreadyStarted
             /\ UNCHANGED <<routers, templateRoutes, nreg, Server, closed, mux, baseURL,
                            serverCloses, closeCalls, registered>>]_vars

C18_Witness ==
    /\ last.op = "Start"
    /\ last.resp.body = ErrAlreadyStarted
    /\ Server = "listening"
    /\ baseURL = ServerURL
    /\ URLValue = ServerURL
    /\ nreg >= 1

\* What the mux NewStub built answers to a request that is not for the
\* control plane
MuxAnswer(r) ==
    IF r.path = ReadyzPath
    THEN IF r.method # MethodGet
         THEN [NoResp EXCEPT !.kind = "error", !.status = StatusMethodNotAllowed]
         ELSE [NoResp EXCEPT !.kind = "readyz", !.status = StatusOK, !.body = "ok"]
    ELSE Resolve(routers, templateRoutes, r)

\* C19: a Start that fails to bind returns an error wrapping the bind
\* failure and leaves the stub unstarted (no server, URL() empty, registry
\* unchanged); and whatever Start calls failed before, the running server
\* answers a request for a route or for the readiness probe as the mux of
\* NewStub answers it.
C19_FailedStartRetry ==
    [][/\ (last'.op = "Start" /\ last'.resp.body = ErrListen)
            => /\ Unwrap(last'.resp.body) = ErrAddrInUse
               /\ Server' = "nil"
               /\ URLValue' = ""
               /\ UNCHANGED <<routers, templateRoutes>>
       /\ (Server = "listening" /\ last'.op \in {"dispatch", "readyz", "aborted"})
            => /\ ~last'.panicked
               /\ last'.resp = MuxAnswer(last'.req)]_vars

\* The first half of it: what a failed Start returns and leaves
FailedStartLeavesUnstarted ==
    [][(last'.op = "Start" /\ last'.resp.body = ErrListen)
            => /\ Unwrap(last'.resp.body) = ErrAddrInUse
               /\ Server' = "nil"
               /\ URLValue' = ""
               /\ UNCHANGED <<routers, templateRoutes>>]_vars

\* C20: every Close on a started stub returns without panic and leaves the
\* stub closed, the server shut down exactly once and URL() empty; a Close on
\* a closed stub changes nothing.
C20_IdempotentClose ==
    [][(last'.op = "Close" /\ Server # "nil")
          => /\ ~last'.panicked
             /\ closed'
             /\ Server' = "shutdown"
             /\ serverCloses' = 1
             /\ URLValue' = ""
             /\ closed => UNCHANGED <<routers, templateRoutes, nreg, Server, closed, mux,
                                      baseURL, serverCloses, registered>>]_vars

C20_Witness ==
    /\ last.op = "Close"
    /\ closeCalls = MaxCloses
    /\ serverCloses = 1
    /\ closed
    /\ Server = "shutdown"
    /\ URLValue = ""

\* The stub is running: a Start has succeeded and no Close has taken effect.
Running == Server = "listening" /\ serverCloses = 0

\* C21: URL() returns a non-empty base address exactly when the stub is
\* running; before a successful Start, after a failed Start and after Close
\* it returns the empty string.
C21_URLWhenRunning ==
    /\ URLValue # "" <=> Running
    /\ last.op = "URL" => (last.resp.body # "" <=> Running)
    /\ (last.op = "Start" /\ last.resp.body = ErrListen) => URLValue = ""
    /\ last.op = "Close" => URLValue = ""

C21_Witness ==
    /\ last.op = "URL"
    /\ last.resp.body = ""
    /\ baseURL = ServerURL
    /\ closed
    /\ mux = "mux"

\* GET /readyz has been sent to the listener of the running stub.
ProbeSent ==
    /\ last.op \in {"readyz", "dispatch", "aborted"}
    /\ last.req.method = MethodGet
    /\ last.req.path = ReadyzPath

\* The answer of the readiness probe: 200, "ok", no user handler run
ProbeAnswered ==
    /\ ~last.panicked
    /\ last.resp.kind = "readyz"
    /\ last.resp.status = StatusOK
    /\ last.resp.body = "ok"
    /\ last.resp.h = 0
    /\ last.resp.trace = <<>>

\* C25: whenever the stub is running, GET /readyz is answered 200 with the
\* body "ok", whatever routes have been registered (for the path /readyz
\* too), and no user handler runs for it.
C25_ReadyzFixed == ProbeSent => ProbeAnswered

\* The same on a stub none of whose Start calls failed.
ReadyzFixedIntactMux == (mux = "mux" /\ ProbeSent) => ProbeAnswered

\* C29: whatever is called on the stub (AddHandler, the control plane,
\* requests, Start, Close, URL), every key of the exact-route map stays a key
\* of it, its entry changes only by a registration that puts the new handler
\* there, and the templated-route list keeps the routes it has, in their
\* order, new ones being appended.
C29_RegistryGrows ==
    [][/\ DOMAIN routers \subseteq DOMAIN routers'
       /\ \A k \in DOMAIN routers :
             routers'[k] # routers[k]
                => /\ last'.op \in {"AddHandler", "control"}
                   /\ nreg' = nreg + 1
                   /\ routers'[k].handler.id = nreg'
       /\ Len(templateRoutes') >= Len(templateRoutes)
       /\ SubSeq(templateRoutes', 1, Len(templateRoutes)) = templateRoutes]_vars

C29_Witness ==
    /\ last.op = "Close"
    /\ closed
    /\ nreg = 3
    /\ Len(templateRoutes) = 1
    /\ DOMAIN routers = { <<"G", " ", "/", "b">> }
    /\ routers[<<"G", " ", "/", "b">>].handler.id = 3
    /\ registered[3].server = "listening"

\* C30: dispatch, whatever its outcome (a handler, 405 or 404), leaves the
\* exact-route map, the templated-route list and the lifecycle state (the
\* server, the mux, the base URL, the closed flag) as they were.
C30_DispatchReadOnly ==
    [][last'.op = "dispatch"
          => /\ last'.resp.kind \in {"handler", "error"}
             /\ UNCHANGED <<routers, templateRoutes, Server, mux, baseURL, closed>>]_vars

C30_Witness ==
    /\ last.op = "dispatch"
    /\ last.resp.kind = "handler"
    /\ last.resp.h = 3
    /\ Server = "listening"
    /\ baseURL = ServerURL
    /\ Cardinality(DOMAIN routers) = 2
    /\ Len(templateRoutes) = 1

\* C31: once Close has taken effect on a started stub, whatever is called
\* afterwards, the stub stays closed and its server shut down, no request is
\* served, URL() is empty, and every Start returns the error of a started
\* stub without trying to bind (no bind error, the mux and the base URL
\* left alone).
C31_ClosedAbsorbing ==
    [][closed
          => /\ closed'
             /\ Server' = "shutdown"
             /\ serverCloses' = serverCloses
             /\ URLValue' = ""
             /\ last'.op \notin {"dispatch", "readyz", "aborted"}
             /\ last'.op = "URL" => last'.resp.body = ""
             /\ last'.op = "Start"
                   => /\ last'.resp.kind = "error"
                      /\ last'.resp.body = ErrAlreadyStarted
                      /\ UNCHANGED <<mux, baseURL>>]_vars

C31_Witness ==
    /\ closed
    /\ last.op = "Start"
    /\ last.resp.body = ErrAlreadyStarted
    /\ closeCalls = 2
    /\ serverCloses = 1
    /\ baseURL = ServerURL
    /\ URLValue = ""
    /\ nreg >= 1

(***************************************************************************)
(* Properties of the goroutines (ConcSpec)                                 *)
(***************************************************************************)
\* Goroutine g serves a request that has not been answered yet.
InFlight(g) == gor[g].pc \notin {"idle", "done"}

\* Close holds the lock and waits inside Server.Close() for the outstanding
\* requests.
CloseWaits == mu = HeldBy(Caller) /\ Server = "closing"

\* dispatch has resolved the request of goroutine g.
Resolved(g) == gor[g].pc \in {"unlocked", "reenter"} \/ (gor[g].pc = "done" /\ gor[g].req.path # ControlPath)

\* The AddHandler calls on the running server that had returned when the
\* request of goroutine g arrived, with the method and path of the request
AddedBefore(g) ==
    { n \in 1..gor[g].seen :
        /\ registered[n].by = "AddHandler"
        /\ registered[n].server = "listening"
        /\ registered[n].method = gor[g].req.method
        /\ registered[n].path = gor[g].req.path }

\* On a stub none of whose Start calls failed, a request that arrives after
\* an AddHandler call for its method and path has returned resolves to a
\* handler, whatever the other goroutines do in between.
ResolvesAfterAddHandler ==
    mux = "mux" =>
        \A g \in Goroutines :
            (Resolved(g) /\ AddedBefore(g) # {}) => gor[g].resp.kind = "handler"

\* C14: whatever user-supplied code a goroutine runs for a request (the
\* middleware wrapping functions, the middleware bodies, the terminal
\* handler), it runs it while dispatch does not hold the lock.
C14_NoUserCodeUnderLock ==
    \A g \in Goroutines :
        \A i \in 1..Len(gor[g].ran) : ~gor[g].ran[i].held

\* The same of the middleware bodies and the terminal handler alone
HandlersRunUnlocked ==
    \A g \in Goroutines :
        \A i \in 1..Len(gor[g].ran) :
            gor[g].ran[i].ev # "wrap" => ~gor[g].ran[i].held

\* C15: while Close waits, holding the lock, for the outstanding requests,
\* no request in flight is still to take the lock in dispatch or in the
\* control-plane handler (such a request never ends, and Close never
\* returns).
C15_CloseReturns ==
    CloseWaits => \A g \in Goroutines : gor[g].pc \notin {"dispatch", "control"}

\* C16: a handler that calls AddHandler or URL on the stub is not kept from
\* the lock for ever: the lock is never held by a Close that waits for the
\* handler's own request.
C16_ReentryCompletes ==
    \A g \in Goroutines : gor[g].pc = "reenter" => ~CloseWaits

\* Close waits for a request whose goroutine waits for the lock Close holds.
Stuck == CloseWaits /\ \E g \in Goroutines : gor[g].pc \in {"dispatch", "control", "reenter"}

\* Once that is so it stays so: Close does not return and the request is not
\* answered, whatever steps are taken.
StuckForEver == [][Stuck => Stuck']_vars

\* While no Close is in progress, a goroutine that waits for the lock is kept
\* from it only by a goroutine inside dispatch, which releases it without
\* waiting.
LockReleasedByDispatch ==
    (mu # Unlocked /\ ~CloseWaits) => \E g \in Goroutines : mu = HeldBy(g) /\ gor[g].pc = "locked"

\* The steps a goroutine takes inside dispatch, the handler's own calls on
\* the stub apart, leave the registry and the lifecycle state as they were.
DispatchStepsReadOnly ==
    [][\A g \in Goroutines :
          (gor[g].pc \in {"dispatch", "locked", "unlocked"} /\ gor'[g] # gor[g])
             => UNCHANGED <<routers, templateRoutes, Server, mux, baseURL, closed>>]_vars

(***************************************************************************)
(* Properties of the reads of dispatch (ReadSpec)                          *)
(***************************************************************************)
\* Goroutine g is between s.mu.Lock() and s.mu.Unlock() in dispatch.
InRegion(g) == gor[g].pc \in {"locked", "scan", "classify"}

\* C28: while a dispatch is between Lock and Unlock the registry does not
\* change, so the exact lookup, the template scan and the classification
\* read one registry, and the outcome is that of resolving the request on
\* the registry as it is when the lock is released; the dispatch holds the
\* lock exactly while it is between the two, enters there once and leaves
\* by releasing the lock, once on every path.
C28_NoTornRead ==
    [][\A g \in Goroutines :
          LET r == Request(gor[g].req.method, gor[g].req.path, gor[g].req.query)
          IN  /\ InRegion(g) => (routers' = routers /\ templateRoutes' = templateRoutes)
              /\ (InRegion(g) /\ ~InRegion(g)')
                    => /\ gor'[g].pc = "unlocked"
                       /\ gor'[g].resp = Resolve(routers, templateRoutes, r)
                       /\ mu = HeldBy(g)
                       /\ mu' = Unlocked
              /\ (~InRegion(g) /\ InRegion(g)') => (gor[g].pc = "dispatch" /\ mu = Unlocked)
              /\ InRegion(g)' <=> mu' = HeldBy(g)]_vars

C28_Witness ==
    \E g \in Goroutines :
        /\ gor[g].pc = "unlocked"
        /\ gor[g].req.method = MethodGet
        /\ gor[g].resp.status = StatusMethodNotAllowed
        /\ gor[g].seen = 0
        /\ nreg = 3
        /\ Len(templateRoutes) = 1

(***************************************************************************)
(* stubsrv.go, the pre-start-only variant (lines 1-159): routes are         *)
(* registered before Start, which builds the mux from them.  s.mux is nil   *)
(* or a mux; a mux is told by the handlers registered on it, by path and    *)
(* by method.                                                               *)
(***************************************************************************)
OldNilMux == [nil |-> TRUE, byPath |-> <<>>]

OldMux(byPath) == [nil |-> FALSE, byPath |-> byPath]

\* NewStub (lines 35-46): the readiness probe is registered with AddHandler.
OldNewStub ==
    /\ routers = MapPut(<<>>, RouteKey(MethodGet, ReadyzPath),
                        routeInfo(HandlerValue(1, StatusOK), <<>>))
    /\ templateRoutes = <<>>
    /\ nreg = 1
    /\ Server = "nil"
    /\ closed = FALSE
    /\ mux = OldNilMux
    /\ baseURL = ""
    /\ serverCloses = 0
    /\ closeCalls = 0
    /\ mu = Unlocked
    /\ last = Last("NewStub", NoReq, NoResp, FALSE)
    /\ registered = <<Registration("NewStub", MethodGet, ReadyzPath, <<>>, <<>>)>>

\* An AddHandler that does not look whether the server has been started (not
\* the code's)
OldAddHandlerUnguarded(method, path, mws) ==
    /\ nreg < MaxRoutes
    /\ routers' = MapPut(routers, RouteKey(method, path),
                         routeInfo(HandlerValue(nreg + 1, StatusOK), mws))
    /\ nreg' = nreg + 1
    /\ last' = Last("AddHandler", NoReq, NoResp, FALSE)
    /\ registered' = Append(registered, Registration("AddHandler", method, path, <<>>, mws))
    /\ UNCHANGED <<templateRoutes, Server, closed, mux, baseURL, serverCloses, closeCalls>>

\* Stub.AddHandler (lines 48-62)
OldAddHandler(method, path, mws) ==
    /\ nreg < MaxRoutes
    /\ IF Server # "nil"
       THEN /\ last' = Last("AddHandler", NoReq, NoResp, TRUE)
            /\ UNCHANGED <<routers, nreg, registered>>
       ELSE /\ routers' = MapPut(routers, RouteKey(method, path),
                                 routeInfo(HandlerValue(nreg + 1, StatusOK), mws))
            /\ nreg' = nreg + 1
            /\ last' = Last("AddHandler", NoReq, NoResp, FALSE)
            /\ registered' = Append(registered,
                    Registration("AddHandler", method, path, <<>>, mws))
    /\ UNCHANGED <<templateRoutes, Server, closed, mux, baseURL, serverCloses, closeCalls>>

\* strings.SplitN(s, sep, 2) for a one-character separator that occurs in s
SplitN2(s, sep) ==
    LET at == Least({ i \in 1..Len(s) : s[i] = sep })
    IN  <<SubSeq(s, 1, at - 1), SubSeq(s, at + 1, Len(s))>>

\* The loops of Start over s.routers and over byPath (lines 91-115): for every
\* path of a key the handler registered on the mux, which holds the route
\* entries of that path by method.
ByPath(rs) ==
    LET paths == { SplitN2(k, " ")[2] : k \in DOMAIN rs }
        methodsOf(p) == { SplitN2(k, " ")[1] : k \in { j \in DOMAIN rs : SplitN2(j, " ")[2] = p } }
    IN  [p \in paths |->
            [m \in methodsOf(p) |->
                rs[CHOOSE k \in DOMAIN rs : SplitN2(k, " ") = <<m, p>>]]]

\* Stub.Start (lines 76-134); bindOk tells whether net.Listen gets the port.
OldStart(bindOk) ==
    /\ IF ~mux.nil \/ Server # "nil"
       THEN /\ last' = Last("Start", NoReq,
                            [NoResp EXCEPT !.kind = "error", !.body = ErrAlreadyStarted], FALSE)
            /\ UNCHANGED <<Server, mux, baseURL>>
       ELSE IF ~bindOk
       THEN /\ mux' = OldNilMux
            /\ last' = Last("Start", NoReq,
                            [NoResp EXCEPT !.kind = "error", !.body = ErrListen], FALSE)
            /\ UNCHANGED <<Server, baseURL>>
       ELSE /\ mux' = OldMux(ByPath(routers))
            /\ Server' = "listening"
            /\ baseURL' = ServerURL
            /\ last' = Last("Start", NoReq, [NoResp EXCEPT !.kind = "ok"], FALSE)
    /\ UNCHANGED <<routers, templateRoutes, nreg, closed, serverCloses, closeCalls,
                   registered>>

\* Stub.Close (lines 136-143), with no request in flight
OldClose ==
    /\ closeCalls < MaxCloses
    /\ IF Server # "nil" /\ ~closed
       THEN /\ Server' = "shutdown"
            /\ closed' = TRUE
            /\ serverCloses' = serverCloses + 1
       ELSE UNCHANGED <<Server, closed, serverCloses>>
    /\ closeCalls' = IF Server # "nil" THEN closeCalls + 1 ELSE closeCalls
    /\ last' = Last("Close", NoReq, NoResp, FALSE)
    /\ UNCHANGED <<routers, templateRoutes, nreg, mux, baseURL, registered>>

\* A request that arrives at the listener of the running server: the mux
\* hands it to the handler registered for its path (lines 106-114), which
\* looks the method up; a path with no handler is answered 404 by the mux.
OldServe(r) ==
    /\ Server = "listening"
    /\ LET byPath == mux.byPath
       IN  last' = Last("serve", r,
                        IF r.path \notin DOMAIN byPath
                        THEN [NoResp EXCEPT !.kind = "error", !.status = StatusNotFound]
                        ELSE IF r.method \notin DOMAIN byPath[r.path]
                        THEN [NoResp EXCEPT !.kind = "error", !.status = StatusMethodNotAllowed]
                        ELSE Serve(byPath[r.path][r.method]),
                        FALSE)
    /\ UNCHANGED <<routers, templateRoutes, nreg, Server, closed, mux, baseURL,
                   serverCloses, closeCalls, registered>>

\* The calls made on a stub of this variant: routes under two methods, one
\* with a middleware, and a route for the path of the readiness probe.
OldAddHandlerCalls ==
    { << <<"g">>, <<"/", "b">>, <<>> >>,
      << <<"P">>, <<"/", "b">>, <<"m1">> >>,
      << <<"P">>, ReadyzPath, <<>> >> }

OldRequests ==
    { Request(m, p, <<>>) : m \in {MethodGet, MethodPost},
                            p \in { <<"/", "b">>, <<"/", "a">>, ReadyzPath } }

OldInit ==
    /\ OldNewStub
    /\ call = NoCall
    /\ ret = NoRet
    /\ gor = [g \in Goroutines |-> Idle]

OldNext ==
    \/ \E c \in OldAddHandlerCalls :
          OldAddHandler(c[1], c[2], c[3]) /\ UNCHANGED <<call, ret, mu, gor>>
    \/ \E b \in BOOLEAN : OldStart(b) /\ UNCHANGED <<call, ret, mu, gor>>
    \/ OldClose /\ UNCHANGED <<call, ret, mu, gor>>
    \/ \E r \in OldRequests : OldServe(r) /\ UNCHANGED <<call, ret, mu, gor>>

OldSpec == OldInit /\ [][OldNext]_vars

(***************************************************************************)
(* Properties of the pre-start-only variant (OldSpec)                      *)
(***************************************************************************)
\* The routes the mux serves, as keys "METHOD path"
ServedKeys ==
    { m \o <<" ">> \o p : <<m, p>> \in
        UNION { { <<m, p>> : m \in DOMAIN mux.byPath[p] } : p \in DOMAIN mux.byPath } }

\* The keys of the registrations made before the server was started
KeysBeforeStart ==
    { KeyOfCall(n) : n \in { j \in 1..Len(registered) : registered[j].server = "nil" } }

\* C26: in the pre-start-only variant AddHandler on a started server panics
\* and leaves the route map unchanged, AddHandler before Start does not
\* panic, and the routes the started server serves are exactly the routes
\* registered before Start: a request for one of them runs its handler, any
\* other gets an error answer.
C26_FrozenAfterStart ==
    [][/\ (Server # "nil" /\ last'.op = "AddHandler")
            => (last'.panicked /\ routers' = routers /\ registered' = registered)
       /\ (Server = "nil" /\ last'.op = "AddHandler") => ~last'.panicked
       /\ Server' # "nil"
            => /\ ServedKeys' = DOMAIN routers'
               /\ ServedKeys' = KeysBeforeStart'
               /\ \A n \in 1..Len(registered') : registered'[n].server = "nil"
       /\ last'.op = "serve"
            => LET key == last'.req.method \o <<" ">> \o last'.req.path
               IN  IF key \in KeysBeforeStart
                   THEN /\ last'.resp.kind = "handler"
                        /\ last'.resp.h = routers[key].handler.id
                        /\ KeyOfCall(last'.resp.h) = key
                   ELSE last'.resp.kind = "error"]_vars

C26_Witness ==
    /\ last.op = "AddHandler"
    /\ last.panicked
    /\ Server = "listening"
    /\ nreg = 2
    /\ Cardinality(ServedKeys) = 2
    /\ registered[2].mws = <<"m1">>

====
